---- MODULE Spec2Model ----
(***************************************************************************)
(* Verification model of the property-sales voice agent.                   *)
(*                                                                         *)
(*   SpecTTS : the two text-to-speech services (CartesiaTTSService and     *)
(*             SarvamTTSService) driven by arbitrary callers of            *)
(*             synthesize() and stop() on one service instance.            *)
(*   Spec    : the session orchestrator of main.py (exotel_stream,         *)
(*             initialize_call_session, handle_transcription,              *)
(*             cleanup_session) with the Deepgram STT adapter in front.    *)
(*   SpecLLM : the response engine (GroqLLMService) called by one client   *)
(*             as the local client calls it, generate_response(user_input),*)
(*             one call at a time, with any outcome of its request.        *)
(*   SpecSTT : the two speech-to-text adapters (DeepgramSTTService and     *)
(*             SarvamSTTService), started through start_stream and fed     *)
(*             the results their servers send.                             *)
(*   SpecStore : EnquiryStorage called one method at a time, with any      *)
(*             outcome of its file writes and a file that can be damaged.  *)
(*   SpecLocal : the audio paths of LocalVoiceClient (test_local.py):      *)
(*             microphone loop, play_audio, force-stop handling.           *)
(*   SpecText : the segmentation of a text into the segments a Sarvam      *)
(*             service requests one by one.                                *)
(*   SpecSarvamFair, SpecLocalFair : SpecTTS for a Sarvam service and      *)
(*             SpecLocal, with the tasks scheduled (liveness).             *)
(*                                                                         *)
(* The program runs on one asyncio event loop: code between two awaits is  *)
(* atomic, so every action below is the code from one suspension point to  *)
(* the next.                                                               *)
(***************************************************************************)
EXTENDS Integers, Sequences, FiniteSets, TLC

\* ---------------------------------------------------------------- bounds
MaxCalls == 3        \* synthesize() calls made on a Sarvam service (short texts)
MaxCallsCartesia == 2 \* synthesize() calls made on a Cartesia service (short texts)
MaxCallsFair == 2    \* synthesize() calls made on a Sarvam service, in the liveness check
MaxStops == 1        \* stop() calls made by the callers
NumSegs == 4         \* segments (Sarvam) / streamed outputs (Cartesia) of a long text
ChunksPerSeg == 2    \* audio chunks of one segment / output of a long text

MaxMedia == 1        \* "media" frames read from the stream
MaxEvents == 3       \* results and events Deepgram sends for a session
MaxOnce == 2         \* DeepgramSTTService.once is counted up to this value

MaxGenerate == 3     \* generate_response calls made on the engine
MaxAdds == 1         \* add_to_history calls a client makes itself
MaxRecords == 2      \* enquiries saved in an EnquiryStorage
MaxChunks == 3       \* chunks the local client reads from the microphone
MaxAudio == 3        \* play_audio calls made on the local client
MaxHistory == 2      \* the engine is built with max_history in 1..MaxHistory
MaxSentences == 4    \* sentences the splitting of a text hands to the grouping

\* ------------------------------------------------------ program constants
QueueMax == 3        \* asyncio.Queue(maxsize=3)
SessionMaxHistory == 10  \* max_history the orchestrator builds its engine with
target_min_size == 30    \* grouping of sentences: the size a group aims at, at least
target_max_size == 80    \* grouping of sentences: the size a group aims at, at most

Calls == 1..MaxCalls
Segs == 1..NumSegs
StopIds == 1..(MaxStops + MaxCalls)  \* stop() invocations: callers', then one per call
InlineStop(c) == MaxStops + c        \* the stop() that synthesize call c makes itself

\* The workloads explored: several overlapping calls with a one-chunk text
\* each and one barge-in, or one call with a long text and several stops.
\* A text can also have no segment at all (a blank text) on a Sarvam service.
\* (A Cartesia call carries its own stop(), so fewer calls overlap as much.)
Workloads(p) ==
    { [calls |-> IF p = "sarvam" \/ MaxCallsCartesia > MaxCalls
                 THEN MaxCalls ELSE MaxCallsCartesia,
       stops |-> 1, segs |-> 1, chunks |-> 1],
      [calls |-> 1, stops |-> MaxStops, segs |-> NumSegs, chunks |-> ChunksPerSeg] }
    \cup IF p = "sarvam"
         THEN {[calls |-> 1, stops |-> MaxStops, segs |-> 0, chunks |-> ChunksPerSeg]}
         ELSE {}

VARIABLES
    \* ---- text-to-speech service instance and its callers
    provider,            \* config.TTS_PROVIDER: "cartesia" or "sarvam"
    lim,                 \* the workload: calls and stops made, segments and chunks per text
    ncalls,              \* synthesize() calls made so far
    nstops,              \* stop() calls made by callers so far
    sinkOf,              \* per call: the playAudio chunks it sent to the sink, in order
    hstop,               \* per call: history of stop() and clearAudio (see NoteStop)
    superseded,          \* per call: a later synthesize() was called while it synthesized
    stopsReturned,       \* per call: stop() calls returned when it was made (see NoteReturned)
    spc,                 \* per call: position of the synthesize() coroutine
    pos,                 \* per call: <<segment, next chunk>> being streamed
    ret,                 \* per call: value returned by synthesize()
    is_stopped,          \* SarvamTTSService._is_stopped
    audio_queue,         \* per call: the local audio_queue (0 is the None marker)
    ppc,                 \* per call: position of the producer task
    pidx,                \* per call: segment the producer works on
    fetch,               \* per call: state of each _synthesize_chunk task
    outOfOrder,          \* per call: a request completed before an earlier one
    cancellation_event,  \* CartesiaTTSService.cancellation_event
    active_contexts,     \* CartesiaTTSService.active_contexts
    cancelled_contexts,  \* CartesiaTTSService.cancelled_contexts
    tts_in_progress,     \* CartesiaTTSService.tts_in_progress
    current_task,        \* CartesiaTTSService.current_task (0 is None)
    context_lock,        \* holder of CartesiaTTSService.context_lock (0 is free)
    lockWaiters,         \* calls waiting for context_lock, first come first served
    callback_set,        \* current_send_audio_callback is not None
    tpc,                 \* per call: position of the _process_synthesis task
    cancelReq,           \* per call: task.cancel() was requested
    stopPc,              \* per stop() invocation: position inside stop()
    stopTask,            \* per stop() invocation: the task it waits for
    \* ---- enquiry store (the record of the one enquiry) and its call
    status,              \* record["status"], "absent" before the form is submitted
    call_data,           \* record["call_data"]: "None", "collected" or "final"
    visit_scheduled,     \* record["visit_scheduled"]: <<date, time>>, <<>> while absent
    scheduled,           \* a schedule_call task is pending
    call_result,         \* result["status"] of make_call in schedule_call, "none" before
    \* ---- exotel_stream and the session
    wsPc,                \* position of the exotel_stream coroutine
    wsError,             \* the exception exotel_stream caught, "none" if none
    nMedia,              \* "media" frames read so far
    active_sessions,     \* keys of main.active_sessions
    conversation_history, \* session["conversation_history"]
    enquiry_data,        \* session["enquiry_data"]["call_data"], read at initialisation
    closed,              \* service handles whose close() has returned
    synthCalls,          \* synthesize() calls made on the session's TTS service
    ttsStopCalls,        \* stop() calls made on the session's TTS service
    cleanup,             \* cleanup_session of the session: "none", "running", "raised", "returned"
    \* ---- DeepgramSTTService and the SDK connection in front of it
    is_connected,        \* DeepgramSTTService._is_connected
    callback_function,   \* DeepgramSTTService.callback_function is set
    once,                \* DeepgramSTTService.once
    is_finals,           \* DeepgramSTTService.is_finals
    processing_lock,     \* DeepgramSTTService.processing_lock is held
    inbox,               \* results received from Deepgram, not yet handed to a handler
    nEvents,             \* results Deepgram has sent so far
    hpc,                 \* the handler the connection is awaiting, "idle" if none
    \* ---- handle_transcription
    htPc,                \* position of the invocation in progress, "none" if none
    htText,              \* its text argument
    stepText,            \* text of the invocation that took the latest step, if it was one
    turns,               \* per final transcript handled: text, engine answer due, steps done
    \* ---- GroqLLMService instance and the calls of its client
    max_history,         \* GroqLLMService.max_history
    llm_history,         \* GroqLLMService.conversation_history
    appended,            \* every message add_to_history was given, in order
    llmPc,               \* position of generate_response: "idle" or "post"
    callStart,           \* Len(appended) when the generate_response in progress was called
    sent,                \* history part of the messages of the latest request
    posts,               \* models the latest generate_response call sent a request to
    nGenerate,           \* generate_response calls made so far
    nAdds,               \* add_to_history calls made by the client so far
    result,              \* what the latest generate_response call returned
    \* ---- an STT adapter driven through its own interface
    sttProvider,         \* config.STT_PROVIDER of the adapter, "none" before it is started
    emitted,             \* every text the adapter passed to its callback, in order
    arrived,             \* final results with a transcript received so far
    \* ---- an EnquiryStorage driven through its own interface
    file,                \* the enquiries file: its state and the list it holds
    nSaved,              \* enquiries saved so far (the next one gets the next id)
    last,                \* the latest call: its arguments, the file before it, its result
    \* ---- LocalVoiceClient (test_local.py)
    is_playing,          \* LocalVoiceClient.is_playing
    mic,                 \* per chunk read from the microphone: was a reply playing, was it sent
    nAudio,              \* play_audio calls the TTS service has made so far
    replyPc,             \* the reply the client has its TTS service synthesize (see LocalSynthesize)
    \* ---- the segmentation of a text (SarvamTTSService.synthesize)
    raw_sentences,       \* the sentences of the text, each one by its length
    final_segments       \* the segments made of them, each one by its length

ttsVars == <<provider, lim, ncalls, nstops, sinkOf, hstop, superseded, stopsReturned,
             spc, pos,
             ret, is_stopped, audio_queue, ppc, pidx, fetch, outOfOrder,
             cancellation_event,
             active_contexts, cancelled_contexts, tts_in_progress,
             current_task, context_lock, lockWaiters, callback_set, tpc,
             cancelReq, stopPc, stopTask>>

sarvamVars == <<is_stopped, audio_queue, ppc, pidx, fetch, outOfOrder>>
cartesiaVars == <<cancellation_event, active_contexts, cancelled_contexts,
                  tts_in_progress, current_task, context_lock, lockWaiters,
                  callback_set, tpc, cancelReq, stopPc, stopTask>>

storeVars == <<status, call_data, visit_scheduled, scheduled, call_result>>
wsVars == <<wsPc, wsError, nMedia, active_sessions, enquiry_data, closed, synthCalls,
            cleanup>>
sttVars == <<is_connected, callback_function, once, is_finals, processing_lock, inbox,
             nEvents, hpc>>
htVars == <<conversation_history, ttsStopCalls, htPc, htText, turns>>
llmVars == <<max_history, llm_history, appended, llmPc, callStart, sent, posts,
             nGenerate, nAdds, result>>
unitVars == <<sttProvider, emitted, arrived, file, nSaved, last, is_playing, mic, nAudio>>
textVars == <<raw_sentences, final_segments>>
sessVars == <<storeVars, wsVars, sttVars, htVars, stepText, llmVars, unitVars, textVars, replyPc>>

vars == <<ttsVars, sessVars>>

\* ------------------------------------------------------------ the history
\* Calls whose synthesis is under way: a Sarvam call between its first
\* queue.get() and its return, a Cartesia call whose context is active.
Synthesizing ==
    IF provider = "sarvam"
    THEN {c \in Calls : spc[c] \in {"get", "sleep"}}
    ELSE {c \in Calls : tpc[c] \in {"new", "send", "iter", "chunk"}}

\* hstop[c] is "no" until a stop() is issued while call c synthesizes
\* ("stopped"), and "cleared" once a clearAudio has gone to the sink after
\* that stop.
NoteStop(h) == [c \in Calls |-> IF c \in Synthesizing /\ h[c] = "no" THEN "stopped" ELSE h[c]]
NoteClear(h) == [c \in Calls |-> IF h[c] = "stopped" THEN "cleared" ELSE h[c]]

\* stopsReturned[c] is -1 until call c is made, and then the number of
\* stop() calls the callers had made, or -1 if a stop() (of a caller, or
\* the one an earlier synthesize call makes itself) was still running.
\* SarvamTTSService.stop never suspends.
NoteReturned(c) ==
    [stopsReturned EXCEPT ![c] =
        IF \A k \in StopIds : stopPc[k] \in {"none", "done"} THEN nstops ELSE -1]

\* A new synthesize() call supersedes the calls that are synthesizing.
NoteCall(sup) == [c \in Calls |-> sup[c] \/ c \in Synthesizing]

\* playAudio(chunk chk of segment seg) of call c reaches the sink.
Play(c, seg, chk) == sinkOf' = [sinkOf EXCEPT ![c] = Append(@, <<seg, chk>>)]

\* ------------------------------------------------------ SarvamTTSService
\* Producer loop from the top of iteration i with queue q: runs without
\* suspending until it must wait for a request, for room in the queue, or
\* ends.  (await on a finished task and put() on a non-full queue do not
\* yield.)  n is the number of segments of the text.
RECURSIVE ProducerLoop(_, _, _, _, _)
\* A producer that ends without putting the None marker.
ProducerEndsSilently(i, q) == [ppc |-> "done", pidx |-> i, q |-> q]

ProducerPutNone(i, q) ==
    IF Len(q) >= QueueMax
    THEN [ppc |-> "putNone", pidx |-> i, q |-> q]
    ELSE [ppc |-> "done", pidx |-> i, q |-> Append(q, 0)]

\* A producer that takes the requests last to first.
ProducerAwaitsReversed(i, n) == n + 1 - i

\* The task awaited in iteration i of the producer: request order.
ProducerAwaits(i, n) == i

\* A producer that ends the stream at the first request that failed.
ProducerEndsOnFailure(i, q, f, stopped, n) ==
    IF f[ProducerAwaits(i, n)] = "ok"
    THEN IF Len(q) >= QueueMax
         THEN [ppc |-> "put", pidx |-> i, q |-> q]
         ELSE ProducerLoop(i + 1, Append(q, ProducerAwaits(i, n)), f, stopped, n)
    ELSE ProducerPutNone(i, q)

ProducerItem(i, q, f, stopped, n) ==
    IF f[ProducerAwaits(i, n)] = "ok"
    THEN IF Len(q) >= QueueMax
         THEN [ppc |-> "put", pidx |-> i, q |-> q]
         ELSE ProducerLoop(i + 1, Append(q, ProducerAwaits(i, n)), f, stopped, n)
    ELSE ProducerLoop(i + 1, q, f, stopped, n)

ProducerLoop(i, q, f, stopped, n) ==
    IF i > n \/ stopped
    THEN ProducerPutNone(i, q)
    ELSE IF f[ProducerAwaits(i, n)] = "flight"
         THEN [ppc |-> "await", pidx |-> i, q |-> q]
         ELSE ProducerItem(i, q, f, stopped, n)

SetProducer(c, r) ==
    /\ ppc' = [ppc EXCEPT ![c] = r.ppc]
    /\ pidx' = [pidx EXCEPT ![c] = r.pidx]
    /\ audio_queue' = [audio_queue EXCEPT ![c] = r.q]

\* synthesize(): reset the stop flag, create the queue and the producer
\* task, enter the consumer loop and suspend in audio_queue.get().
SarvamSynthesize(c) ==
    /\ provider = "sarvam"
    /\ c = ncalls + 1
    /\ c <= lim.calls
    /\ ncalls' = c
    /\ is_stopped' = FALSE
    /\ spc' = [spc EXCEPT ![c] = "get"]
    /\ ppc' = [ppc EXCEPT ![c] = "new"]
    /\ superseded' = NoteCall(superseded)
    /\ stopsReturned' = NoteReturned(c)
    /\ UNCHANGED <<provider, lim, nstops, sinkOf, hstop, pos, ret, audio_queue, pidx,
                   fetch, outOfOrder>>
    /\ UNCHANGED cartesiaVars
    /\ UNCHANGED sessVars

\* stop(): _current_task is never assigned, so only the flag is set.
SarvamStop ==
    /\ provider = "sarvam"
    /\ nstops < lim.stops
    /\ nstops' = nstops + 1
    /\ is_stopped' = TRUE
    /\ hstop' = NoteStop(hstop)
    /\ UNCHANGED <<provider, lim, stopsReturned, ncalls, sinkOf, superseded, spc, pos, ret,
                   audio_queue, ppc, pidx, fetch, outOfOrder>>
    /\ UNCHANGED cartesiaVars
    /\ UNCHANGED sessVars

\* producer(), first run: launch every segment request, then loop.
ProducerStart(c) ==
    /\ provider = "sarvam"
    /\ ppc[c] = "new"
    /\ LET f == [i \in Segs |-> IF i <= lim.segs THEN "flight" ELSE "none"]
       IN /\ fetch' = [fetch EXCEPT ![c] = f]
          /\ SetProducer(c, ProducerLoop(1, audio_queue[c], f, is_stopped, lim.segs))
    /\ UNCHANGED <<provider, lim, stopsReturned, ncalls, nstops, sinkOf, hstop, superseded, spc, pos,
                   ret, is_stopped, outOfOrder>>
    /\ UNCHANGED cartesiaVars
    /\ UNCHANGED sessVars

\* One _synthesize_chunk request returns: audio, or None on an error.
FetchDone(c, i, res) ==
    /\ provider = "sarvam"
    /\ fetch[c][i] = "flight"
    /\ fetch' = [fetch EXCEPT ![c][i] = res]
    /\ outOfOrder' = [outOfOrder EXCEPT ![c] =
                        @ \/ \E j \in 1..(i - 1) : fetch[c][j] = "flight"]
    /\ UNCHANGED <<provider, lim, stopsReturned, ncalls, nstops, sinkOf, hstop, superseded, spc, pos,
                   ret, is_stopped, audio_queue, ppc, pidx>>
    /\ UNCHANGED cartesiaVars
    /\ UNCHANGED sessVars

\* producer() resumes from `await task`.
ProducerWake(c) ==
    /\ provider = "sarvam"
    /\ ppc[c] = "await"
    /\ fetch[c][ProducerAwaits(pidx[c], lim.segs)] \in {"ok", "fail"}
    /\ SetProducer(c, ProducerItem(pidx[c], audio_queue[c], fetch[c], is_stopped, lim.segs))
    /\ UNCHANGED <<provider, lim, stopsReturned, ncalls, nstops, sinkOf, hstop, superseded, spc, pos,
                   ret, is_stopped, fetch, outOfOrder>>
    /\ UNCHANGED cartesiaVars
    /\ UNCHANGED sessVars

\* producer() resumes from a put() that waited for room in the queue.
ProducerPut(c) ==
    /\ provider = "sarvam"
    /\ ppc[c] \in {"put", "putNone"}
    /\ Len(audio_queue[c]) < QueueMax
    /\ IF ppc[c] = "put"
       THEN SetProducer(c, ProducerLoop(pidx[c] + 1,
                               Append(audio_queue[c], ProducerAwaits(pidx[c], lim.segs)),
                               fetch[c], is_stopped, lim.segs))
       ELSE SetProducer(c, ProducerPutNone(pidx[c], audio_queue[c]))
    /\ UNCHANGED <<provider, lim, stopsReturned, ncalls, nstops, sinkOf, hstop, superseded, spc, pos,
                   ret, is_stopped, fetch, outOfOrder>>
    /\ UNCHANGED cartesiaVars
    /\ UNCHANGED sessVars

\* End of synthesize(), after the consumer loop.  Stopped:
\* producer_task.cancel() (which also cancels the request the producer is
\* awaiting), clearAudio, return False; else finishAudio, return True.
ConsumerEnd(c, q) ==
    /\ spc' = [spc EXCEPT ![c] = "done"]
    /\ audio_queue' = [audio_queue EXCEPT ![c] = q]
    /\ UNCHANGED <<pos, pidx, sinkOf>>
    /\ IF is_stopped
       THEN /\ hstop' = NoteClear(hstop)
            /\ ret' = [ret EXCEPT ![c] = "false"]
            /\ ppc' = [ppc EXCEPT ![c] = IF @ = "done" THEN @ ELSE "cancelled"]
            /\ fetch' = [fetch EXCEPT ![c] =
                           IF ppc[c] = "await"
                           THEN [@ EXCEPT ![ProducerAwaits(pidx[c], lim.segs)] = "cancelled"]
                           ELSE @]
       ELSE /\ ret' = [ret EXCEPT ![c] = "true"]
            /\ UNCHANGED <<hstop, ppc, fetch>>

\* The consumer takes the head of the queue q (non-empty): None ends the
\* stream; a segment is streamed from its first chunk unless stopped.
ConsumerTake(c, q) ==
    IF Head(q) = 0 \/ is_stopped
    THEN ConsumerEnd(c, Tail(q))
    ELSE /\ Play(c, Head(q), 1)
         /\ pos' = [pos EXCEPT ![c] = <<Head(q), 2>>]
         /\ spc' = [spc EXCEPT ![c] = "sleep"]
         /\ audio_queue' = [audio_queue EXCEPT ![c] = Tail(q)]
         /\ UNCHANGED <<ret, ppc, pidx, fetch, hstop>>

\* synthesize() resumes from audio_queue.get().
ConsumerWake(c) ==
    /\ provider = "sarvam"
    /\ spc[c] = "get"
    /\ audio_queue[c] # <<>>
    /\ ConsumerTake(c, audio_queue[c])
    /\ UNCHANGED <<provider, lim, stopsReturned, ncalls, nstops, superseded, is_stopped, outOfOrder>>
    /\ UNCHANGED cartesiaVars
    /\ UNCHANGED sessVars

\* synthesize() resumes from the sleep after a chunk: next chunk of the
\* segment, or the next segment, or the end.
ConsumerStep(c) ==
    /\ provider = "sarvam"
    /\ spc[c] = "sleep"
    /\ IF is_stopped
       THEN ConsumerEnd(c, audio_queue[c])
       ELSE IF pos[c][2] <= lim.chunks
            THEN /\ Play(c, pos[c][1], pos[c][2])
                 /\ pos' = [pos EXCEPT ![c] = <<@[1], @[2] + 1>>]
                 /\ UNCHANGED <<spc, ret, audio_queue, ppc, pidx, fetch, hstop>>
            ELSE IF audio_queue[c] # <<>>
                 THEN ConsumerTake(c, audio_queue[c])
                 ELSE /\ spc' = [spc EXCEPT ![c] = "get"]
                      /\ UNCHANGED <<sinkOf, pos, ret, audio_queue, ppc, pidx, fetch, hstop>>
    /\ UNCHANGED <<provider, lim, stopsReturned, ncalls, nstops, superseded, is_stopped, outOfOrder>>
    /\ UNCHANGED cartesiaVars
    /\ UNCHANGED sessVars

\* ---------------------------------------------------- CartesiaTTSService
\* A cancellation is visible to _process_synthesis of context c.
CancellationSeen(c) == cancellation_event \/ c \in cancelled_contexts

\* stop() after its clearAudio: cancel the current task and wait for it
\* (at most 0.05 s), or go straight on to mark the contexts cancelled and
\* sleep.
StopCancel(k) ==
    IF current_task # 0 /\ tpc[current_task] \notin {"done", "cancelled"}
    THEN /\ cancelReq' = [cancelReq EXCEPT ![current_task] = TRUE]
         /\ stopTask' = [stopTask EXCEPT ![k] = current_task]
         /\ stopPc' = [stopPc EXCEPT ![k] = "waitTask"]
         /\ UNCHANGED <<cancelled_contexts, tts_in_progress>>
    ELSE /\ cancelled_contexts' = cancelled_contexts \cup active_contexts
         /\ tts_in_progress' = FALSE
         /\ stopPc' = [stopPc EXCEPT ![k] = "sleep"]
         /\ UNCHANGED <<cancelReq, stopTask>>

\* stop(), first block: set the cancellation event and send clearAudio
\* through the current callback; without a callback nothing is awaited
\* and stop() runs on to the cancel.
StopBegin(k) ==
    /\ cancellation_event' = TRUE
    /\ IF callback_set'
       THEN /\ hstop' = NoteClear(NoteStop(hstop))
            /\ stopPc' = [stopPc EXCEPT ![k] = "afterClear"]
            /\ UNCHANGED <<cancelReq, stopTask, cancelled_contexts, tts_in_progress>>
       ELSE /\ hstop' = NoteStop(hstop)
            /\ StopCancel(k)

\* A caller invokes stop().
CartesiaStop ==
    /\ provider = "cartesia"
    /\ nstops < lim.stops
    /\ nstops' = nstops + 1
    /\ UNCHANGED callback_set
    /\ StopBegin(nstops + 1)
    /\ UNCHANGED <<provider, lim, stopsReturned, ncalls, sinkOf, superseded, spc, pos, ret,
                   active_contexts, current_task, context_lock, lockWaiters, tpc>>
    /\ UNCHANGED sarvamVars
    /\ UNCHANGED sessVars

\* stop() resumes after the clearAudio send.
StopAfterClear(k) ==
    /\ provider = "cartesia"
    /\ stopPc[k] = "afterClear"
    /\ StopCancel(k)
    /\ UNCHANGED <<provider, lim, stopsReturned, ncalls, nstops, sinkOf, hstop, superseded, spc, pos,
                   ret, cancellation_event, active_contexts, current_task,
                   context_lock, lockWaiters, callback_set, tpc>>
    /\ UNCHANGED sarvamVars
    /\ UNCHANGED sessVars

\* stop() resumes from wait_for(shield(task), 0.05): the task ended or the
\* timeout fired.
StopWaited(k) ==
    /\ provider = "cartesia"
    /\ stopPc[k] = "waitTask"
    /\ cancelled_contexts' = cancelled_contexts \cup active_contexts
    /\ tts_in_progress' = FALSE
    /\ stopPc' = [stopPc EXCEPT ![k] = "sleep"]
    /\ UNCHANGED <<provider, lim, stopsReturned, ncalls, nstops, sinkOf, hstop, superseded, spc, pos,
                   ret, cancellation_event, active_contexts, current_task,
                   context_lock, lockWaiters, callback_set, tpc, cancelReq, stopTask>>
    /\ UNCHANGED sarvamVars
    /\ UNCHANGED sessVars

\* A stop() that returns with the cancellation event still set.
StopEndKeepsEvent(k) ==
    /\ provider = "cartesia"
    /\ stopPc[k] = "sleep"
    /\ cancellation_event' = cancellation_event
    /\ stopPc' = [stopPc EXCEPT ![k] = "done"]
    /\ spc' = [c \in Calls |-> IF k = InlineStop(c) THEN "c_presleep" ELSE spc[c]]
    /\ UNCHANGED <<provider, lim, stopsReturned, ncalls, nstops, sinkOf, hstop, superseded, pos, ret,
                   active_contexts, cancelled_contexts, tts_in_progress, current_task,
                   context_lock, lockWaiters, callback_set, tpc, cancelReq, stopTask>>
    /\ UNCHANGED sarvamVars
    /\ UNCHANGED sessVars

\* stop() resumes from its sleep, clears the event and returns; the
\* synthesize() that called it goes on to its own sleep(0.01).
StopEnd(k) ==
    /\ provider = "cartesia"
    /\ stopPc[k] = "sleep"
    /\ cancellation_event' = FALSE
    /\ stopPc' = [stopPc EXCEPT ![k] = "done"]
    /\ spc' = [c \in Calls |-> IF k = InlineStop(c) THEN "c_presleep" ELSE spc[c]]
    /\ UNCHANGED <<provider, lim, stopsReturned, ncalls, nstops, sinkOf, hstop, superseded, pos, ret,
                   active_contexts, cancelled_contexts, tts_in_progress, current_task,
                   context_lock, lockWaiters, callback_set, tpc, cancelReq, stopTask>>
    /\ UNCHANGED sarvamVars
    /\ UNCHANGED sessVars

\* synthesize(): store the callback and run stop().
CartesiaSynthesize(c) ==
    /\ provider = "cartesia"
    /\ c = ncalls + 1
    /\ c <= lim.calls
    /\ ncalls' = c
    /\ callback_set' = TRUE
    /\ spc' = [spc EXCEPT ![c] = "c_stop"]
    /\ superseded' = NoteCall(superseded)
    /\ stopsReturned' = NoteReturned(c)
    /\ StopBegin(InlineStop(c))
    /\ UNCHANGED <<provider, lim, nstops, sinkOf, pos, ret, active_contexts,
                   current_task, context_lock, lockWaiters, tpc>>
    /\ UNCHANGED sarvamVars
    /\ UNCHANGED sessVars

\* Release of context_lock: handed to the first waiter.
ReleaseLock ==
    /\ context_lock' = IF lockWaiters = <<>> THEN 0 ELSE Head(lockWaiters)
    /\ lockWaiters' = IF lockWaiters = <<>> THEN <<>> ELSE Tail(lockWaiters)

\* synthesize() inside `async with context_lock`: give up if the event is
\* set, else register the context and create the _process_synthesis task.
CartesiaEnter(c) ==
    IF cancellation_event
    THEN /\ ret' = [ret EXCEPT ![c] = "false"]
         /\ spc' = [spc EXCEPT ![c] = "done"]
         /\ UNCHANGED <<active_contexts, tts_in_progress, current_task, tpc>>
    ELSE /\ active_contexts' = active_contexts \cup {c}
         /\ tts_in_progress' = TRUE
         /\ current_task' = c
         /\ tpc' = [tpc EXCEPT ![c] = "new"]
         /\ spc' = [spc EXCEPT ![c] = "c_await"]
         /\ UNCHANGED ret

\* synthesize() resumes from sleep(0.01) and asks for the lock.
CartesiaLock(c) ==
    /\ provider = "cartesia"
    /\ spc[c] = "c_presleep"
    /\ IF context_lock = 0
       THEN /\ CartesiaEnter(c)
            /\ context_lock' = IF cancellation_event THEN 0 ELSE c
            /\ UNCHANGED lockWaiters
       ELSE /\ spc' = [spc EXCEPT ![c] = "c_lock"]
            /\ lockWaiters' = Append(lockWaiters, c)
            /\ UNCHANGED <<ret, active_contexts, tts_in_progress, current_task,
                           tpc, context_lock>>
    /\ UNCHANGED <<provider, lim, stopsReturned, ncalls, nstops, sinkOf, hstop, superseded, pos,
                   cancellation_event, cancelled_contexts, callback_set, cancelReq,
                   stopPc, stopTask>>
    /\ UNCHANGED sarvamVars
    /\ UNCHANGED sessVars

\* synthesize() resumes holding the lock it waited for.
CartesiaLocked(c) ==
    /\ provider = "cartesia"
    /\ spc[c] = "c_lock"
    /\ context_lock = c
    /\ CartesiaEnter(c)
    /\ IF cancellation_event THEN ReleaseLock ELSE UNCHANGED <<context_lock, lockWaiters>>
    /\ UNCHANGED <<provider, lim, stopsReturned, ncalls, nstops, sinkOf, hstop, superseded, pos,
                   cancellation_event, cancelled_contexts, callback_set, cancelReq,
                   stopPc, stopTask>>
    /\ UNCHANGED sarvamVars
    /\ UNCHANGED sessVars

\* The task ends in its CancelledError handler: clearAudio, then done.
TaskCancelled(c) ==
    /\ hstop' = NoteClear(hstop)
    /\ tpc' = [tpc EXCEPT ![c] = "done"]
    /\ UNCHANGED <<pos, sinkOf>>

\* _process_synthesis, first run: up to `await self.ws.send(...)`.  A task
\* cancelled before its first run never executes its body.
TaskStart(c) ==
    /\ provider = "cartesia"
    /\ tpc[c] = "new"
    /\ tpc' = [tpc EXCEPT ![c] = IF cancelReq[c] THEN "cancelled" ELSE "send"]
    /\ UNCHANGED <<provider, lim, stopsReturned, ncalls, nstops, sinkOf, hstop, superseded, spc, pos,
                   ret, cancellation_event, active_contexts, cancelled_contexts,
                   tts_in_progress, current_task, context_lock, lockWaiters,
                   callback_set, cancelReq, stopPc, stopTask>>
    /\ UNCHANGED sarvamVars
    /\ UNCHANGED sessVars

\* ws.send returned: wait for the first streamed output.
TaskSent(c) ==
    /\ provider = "cartesia"
    /\ tpc[c] = "send"
    /\ IF cancelReq[c]
       THEN TaskCancelled(c)
       ELSE /\ tpc' = [tpc EXCEPT ![c] = "iter"]
            /\ pos' = [pos EXCEPT ![c] = <<1, 1>>]
            /\ UNCHANGED <<sinkOf, hstop>>
    /\ UNCHANGED <<provider, lim, stopsReturned, ncalls, nstops, superseded, spc, ret,
                   cancellation_event, active_contexts, cancelled_contexts,
                   tts_in_progress, current_task, context_lock, lockWaiters,
                   callback_set, cancelReq, stopPc, stopTask>>
    /\ UNCHANGED sarvamVars
    /\ UNCHANGED sessVars

\* Send chunk pos[c] of the current output unless a cancellation is seen
\* (then clearAudio and the task ends).
TaskSendChunk(c) ==
    IF CancellationSeen(c)
    THEN /\ hstop' = NoteClear(hstop)
         /\ tpc' = [tpc EXCEPT ![c] = "done"]
         /\ UNCHANGED <<pos, sinkOf>>
    ELSE /\ Play(c, pos[c][1], pos[c][2])
         /\ UNCHANGED hstop
         /\ IF pos[c][2] >= lim.chunks
            THEN /\ tpc' = [tpc EXCEPT ![c] = "iter"]
                 /\ pos' = [pos EXCEPT ![c] = <<@[1] + 1, 1>>]
            ELSE /\ tpc' = [tpc EXCEPT ![c] = "chunk"]
                 /\ pos' = [pos EXCEPT ![c] = <<@[1], @[2] + 1>>]

\* The response iterator yields the next output, or is exhausted.
TaskOutput(c) ==
    /\ provider = "cartesia"
    /\ tpc[c] = "iter"
    /\ IF cancelReq[c]
       THEN TaskCancelled(c)
       ELSE IF pos[c][1] > lim.segs
            THEN /\ tpc' = [tpc EXCEPT ![c] = "done"]
                 /\ UNCHANGED <<sinkOf, hstop, pos>>
            ELSE TaskSendChunk(c)
    /\ UNCHANGED <<provider, lim, stopsReturned, ncalls, nstops, superseded, spc, ret,
                   cancellation_event, active_contexts, cancelled_contexts,
                   tts_in_progress, current_task, context_lock, lockWaiters,
                   callback_set, cancelReq, stopPc, stopTask>>
    /\ UNCHANGED sarvamVars
    /\ UNCHANGED sessVars

\* The task resumes from the send of a chunk.
TaskChunk(c) ==
    /\ provider = "cartesia"
    /\ tpc[c] = "chunk"
    /\ IF cancelReq[c] THEN TaskCancelled(c) ELSE TaskSendChunk(c)
    /\ UNCHANGED <<provider, lim, stopsReturned, ncalls, nstops, superseded, spc, ret,
                   cancellation_event, active_contexts, cancelled_contexts,
                   tts_in_progress, current_task, context_lock, lockWaiters,
                   callback_set, cancelReq, stopPc, stopTask>>
    /\ UNCHANGED sarvamVars
    /\ UNCHANGED sessVars

\* synthesize() resumes from `await self.current_task`: clearAudio if the
\* task was cancelled, then the finally block, whose `return True`
\* replaces any earlier return value; the lock is released.
CartesiaFinish(c) ==
    /\ provider = "cartesia"
    /\ spc[c] = "c_await"
    /\ tpc[c] \in {"done", "cancelled"}
    /\ hstop' = IF tpc[c] = "cancelled" THEN NoteClear(hstop) ELSE hstop
    /\ active_contexts' = active_contexts \ {c}
    /\ cancelled_contexts' = cancelled_contexts \ {c}
    /\ tts_in_progress' = FALSE
    /\ current_task' = 0
    /\ ret' = [ret EXCEPT ![c] = "true"]
    /\ spc' = [spc EXCEPT ![c] = "done"]
    /\ ReleaseLock
    /\ UNCHANGED <<provider, lim, stopsReturned, ncalls, nstops, sinkOf, superseded, pos,
                   cancellation_event, callback_set, tpc, cancelReq, stopPc, stopTask>>
    /\ UNCHANGED sarvamVars
    /\ UNCHANGED sessVars

\* ------------------------------------------------------------ the store
SessionId == "s1"                    \* the enquiry id, key of the session
NoText == <<>>                       \* no invocation
ForceStop == <<"__FORCE_STOP__">>    \* the sentinel text
Fragment == "hello"                  \* transcript of one final result
Responses == {"plain", "booking", "farewell"}  \* what the engine is due to answer
Handles == {"stt", "tts", "llm"}

\* submit_enquiry: save the record (call_data None, status "pending") and
\* create the schedule_call task.
SubmitEnquiry ==
    /\ status = "absent"
    /\ status' = "pending"
    /\ call_data' = "None"
    /\ visit_scheduled' = <<>>
    /\ scheduled' = TRUE
    /\ stepText' = NoText
    /\ UNCHANGED <<call_result, wsVars, sttVars, htVars>>
    /\ UNCHANGED <<ttsVars, llmVars, unitVars, textVars, replyPc>>

\* A schedule_call that leaves the record alone when the call failed.
ScheduleCallKeepsPending(ok) ==
    /\ scheduled
    /\ scheduled' = FALSE
    /\ call_result' = IF ok THEN "success" ELSE "error"
    /\ status' = IF ok THEN "calling" ELSE status
    /\ stepText' = NoText
    /\ UNCHANGED <<call_data, visit_scheduled, wsVars, sttVars, htVars>>
    /\ UNCHANGED <<ttsVars, llmVars, unitVars, textVars, replyPc>>

\* schedule_call after the delay: make_call returns a result whose status
\* is "success" (ok) or "error" (a response other than 200/201, or any
\* exception), and the record is updated to "calling" or "failed".
ScheduleCall(ok) ==
    /\ scheduled
    /\ scheduled' = FALSE
    /\ call_result' = IF ok THEN "success" ELSE "error"
    /\ status' = IF ok THEN "calling" ELSE "failed"
    /\ stepText' = NoText
    /\ UNCHANGED <<call_data, visit_scheduled, wsVars, sttVars, htVars>>
    /\ UNCHANGED <<ttsVars, llmVars, unitVars, textVars, replyPc>>

\* ------------------------------------------------------ handle_transcription
Active == SessionId \in active_sessions

\* CartesiaTTSService.stop() suspends (sends, sleeps); SarvamTTSService.stop()
\* returns without suspending.
StopSuspends == provider = "cartesia"

\* A text that is never a force-stop.
NeverForceStop(text) == FALSE

IsForceStop(text) == text = ForceStop

\* How far handle_transcription(text) runs before it first suspends:
\* suspended in tts.stop() for the sentinel ("fs_stop") or for a turn
\* ("turn_stop"), returned, or raised the TypeError of the
\* generate_response call (which accepts no conversation_history).
HandlerOutcome(text) ==
    IF ~Active THEN "returned"
    ELSE IF StopSuspends
         THEN IF IsForceStop(text) THEN "fs_stop" ELSE "turn_stop"
         ELSE IF IsForceStop(text) THEN "returned" ELSE "raised"

Suspended(out) == out \in {"fs_stop", "turn_stop"}

\* The turn after tts.stop(): the user entry is appended, then the
\* generate_response call raises.
Raised(turn) == [turn EXCEPT !.steps = Append(@, "history"), !.over = TRUE]
UserEntry(text) == [role |-> "user", content |-> text]

\* handle_transcription(text) from its call to its first suspension or end;
\* resp is the answer the engine is due to give to this transcript.
HandleTranscription(text, resp) ==
    LET out == HandlerOutcome(text)
        turn == [text |-> text, resp |-> resp, steps |-> <<"stop">>, over |-> FALSE]
    IN /\ stepText' = text
       /\ htPc' = IF Suspended(out) THEN out ELSE "none"
       /\ htText' = IF Suspended(out) THEN text ELSE NoText
       /\ ttsStopCalls' = IF Active THEN ttsStopCalls + 1 ELSE ttsStopCalls
       /\ IF IsForceStop(text) \/ ~Active
          THEN UNCHANGED <<conversation_history, turns>>
          ELSE IF out = "raised"
               THEN /\ conversation_history' = Append(conversation_history, UserEntry(text))
                    /\ turns' = Append(turns, Raised(turn))
               ELSE /\ turns' = Append(turns, turn)
                    /\ UNCHANGED conversation_history

\* handle_transcription resumes from tts.stop(): the sentinel's invocation
\* returns; a turn appends the user entry and raises, the handler that
\* awaited it releases the lock and skips its reset of once and is_finals.
HtStopDone ==
    /\ htPc \in {"fs_stop", "turn_stop"}
    /\ stepText' = htText
    /\ htPc' = "none"
    /\ htText' = NoText
    /\ hpc' = "idle"
    /\ processing_lock' = FALSE
    /\ IF htPc = "fs_stop"
       THEN UNCHANGED <<conversation_history, turns>>
       ELSE /\ conversation_history' = Append(conversation_history, UserEntry(htText))
            /\ turns' = [turns EXCEPT ![Len(turns)] = Raised(@)]
    /\ UNCHANGED <<ttsStopCalls, is_connected, callback_function, once, is_finals,
                   inbox, nEvents>>
    /\ UNCHANGED <<storeVars, wsVars>>
    /\ UNCHANGED <<ttsVars, llmVars, unitVars, textVars, replyPc>>

\* ------------------------------------------------------ DeepgramSTTService
\* Deepgram sends a result: interim, final, final with speech_final, or an
\* UtteranceEnd event.
DgEmit(kind) ==
    /\ is_connected
    /\ nMedia > 0
    /\ nEvents < MaxEvents
    /\ nEvents' = nEvents + 1
    /\ inbox' = Append(inbox, kind)
    /\ stepText' = NoText
    /\ UNCHANGED <<is_connected, callback_function, once, is_finals, processing_lock, hpc>>
    /\ UNCHANGED <<storeVars, wsVars, htVars>>
    /\ UNCHANGED <<ttsVars, llmVars, unitVars, textVars, replyPc>>

\* on_message for an interim result: count it and send the sentinel for
\* the first one.  (once is kept up to MaxOnce: only once <= 1 is read.)
OnInterim ==
    /\ once' = IF once < MaxOnce THEN once + 1 ELSE once
    /\ UNCHANGED <<is_finals, processing_lock>>
    /\ IF callback_function /\ once + 1 <= 1
       THEN /\ HandleTranscription(ForceStop, "plain")
            /\ hpc' = IF Suspended(HandlerOutcome(ForceStop)) THEN "on_message" ELSE "idle"
       ELSE /\ hpc' = "idle"
            /\ stepText' = NoText
            /\ UNCHANGED htVars

\* on_message for a final result, and on_utterance_end: under the lock,
\* collect the fragment and, at the end of the utterance, pass the joined
\* fragments to the callback; reset once and is_finals when it returns.
OnFinal(ev, resp) ==
    LET finals == IF ev = "utterance_end" THEN is_finals ELSE Append(is_finals, Fragment)
        ends == IF ev = "utterance_end" THEN is_finals # <<>> ELSE ev = "speech_final"
        out == HandlerOutcome(finals)
    IN /\ ~processing_lock
       /\ IF ~ends
          THEN /\ is_finals' = finals
               /\ hpc' = "idle"
               /\ stepText' = NoText
               /\ UNCHANGED <<once, processing_lock, htVars>>
          ELSE IF ~callback_function
               THEN /\ is_finals' = <<>>
                    /\ once' = 0
                    /\ hpc' = "idle"
                    /\ stepText' = NoText
                    /\ UNCHANGED <<processing_lock, htVars>>
               ELSE /\ HandleTranscription(finals, resp)
                    /\ hpc' = IF ~Suspended(out) THEN "idle"
                              ELSE IF ev = "utterance_end" THEN "on_utterance_end"
                              ELSE "on_message"
                    /\ processing_lock' = Suspended(out)
                    /\ is_finals' = IF out = "returned" THEN <<>> ELSE finals
                    /\ once' = IF out = "returned" THEN 0 ELSE once

\* The connection hands the next result to its handler and awaits it: the
\* following result waits until the handler has returned.
DgDispatch(resp) ==
    /\ hpc = "idle"
    /\ inbox # <<>>
    /\ inbox' = Tail(inbox)
    /\ IF Head(inbox) = "interim" THEN OnInterim ELSE OnFinal(Head(inbox), resp)
    /\ UNCHANGED <<is_connected, callback_function, nEvents>>
    /\ UNCHANGED <<storeVars, wsVars>>
    /\ UNCHANGED <<ttsVars, llmVars, unitVars, textVars, replyPc>>

\* ------------------------------------------------------------ exotel_stream
\* The first frame names the session; initialize_call_session returns at
\* once if the enquiry is unknown, else creates and initialises the
\* services, registers the session and starts the greeting.
WsOpen(known) ==
    /\ wsPc = "accept"
    /\ stepText' = NoText
    /\ IF known /\ status # "absent"
       THEN /\ active_sessions' = active_sessions \cup {SessionId}
            /\ enquiry_data' = call_data
            /\ is_connected' = TRUE
            /\ callback_function' = TRUE
            /\ synthCalls' = synthCalls + 1
            /\ wsPc' = "greeting"
       ELSE /\ wsPc' = "loop"
            /\ UNCHANGED <<active_sessions, enquiry_data, is_connected,
                           callback_function, synthCalls>>
    /\ UNCHANGED <<wsError, nMedia, closed, cleanup, once, is_finals, processing_lock,
                   inbox, nEvents, hpc>>
    /\ UNCHANGED <<storeVars, htVars>>
    /\ UNCHANGED <<ttsVars, llmVars, unitVars, textVars, replyPc>>

\* The greeting's synthesize() returns: the frame loop starts.
GreetingDone ==
    /\ wsPc = "greeting"
    /\ wsPc' = "loop"
    /\ stepText' = NoText
    /\ UNCHANGED <<wsError, nMedia, active_sessions, enquiry_data, closed, synthCalls,
                   cleanup>>
    /\ UNCHANGED <<storeVars, sttVars, htVars>>
    /\ UNCHANGED <<ttsVars, llmVars, unitVars, textVars, replyPc>>

\* A "media" frame: its audio goes to the session's STT service.
WsMedia ==
    /\ wsPc = "loop"
    /\ nMedia < MaxMedia
    /\ nMedia' = nMedia + 1
    /\ stepText' = NoText
    /\ UNCHANGED <<wsPc, wsError, active_sessions, enquiry_data, closed, synthCalls,
                   cleanup>>
    /\ UNCHANGED <<storeVars, sttVars, htVars>>
    /\ UNCHANGED <<ttsVars, llmVars, unitVars, textVars, replyPc>>

\* A "stop" frame: cleanup_session, up to `await stt_service.close()`
\* (which first clears is_finals and once); no session, nothing to do.
WsStop ==
    /\ wsPc = "loop"
    /\ stepText' = NoText
    /\ IF Active
       THEN /\ wsPc' = "close_stt"
            /\ cleanup' = "running"
            /\ is_finals' = <<>>
            /\ once' = 0
       ELSE /\ wsPc' = "closed"
            /\ UNCHANGED <<cleanup, is_finals, once>>
    /\ UNCHANGED <<wsError, nMedia, active_sessions, enquiry_data, closed, synthCalls,
                   is_connected, callback_function, processing_lock, inbox, nEvents, hpc>>
    /\ UNCHANGED <<storeVars, htVars>>
    /\ UNCHANGED <<ttsVars, llmVars, unitVars, textVars, replyPc>>

\* stt_service.close() returns (connection finished, callback dropped);
\* cleanup_session awaits tts_service.close().
CleanupStt ==
    /\ wsPc = "close_stt"
    /\ wsPc' = "close_tts"
    /\ closed' = closed \cup {"stt"}
    /\ is_connected' = FALSE
    /\ callback_function' = FALSE
    /\ stepText' = NoText
    /\ UNCHANGED <<wsError, nMedia, active_sessions, enquiry_data, synthCalls, cleanup,
                   once, is_finals, processing_lock, inbox, nEvents, hpc>>
    /\ UNCHANGED <<storeVars, htVars>>
    /\ UNCHANGED <<ttsVars, llmVars, unitVars, textVars, replyPc>>

\* tts_service.close() returns; cleanup_session awaits llm_service.close().
CleanupTts ==
    /\ wsPc = "close_tts"
    /\ wsPc' = "close_llm"
    /\ closed' = closed \cup {"tts"}
    /\ stepText' = NoText
    /\ UNCHANGED <<wsError, nMedia, active_sessions, enquiry_data, synthCalls, cleanup>>
    /\ UNCHANGED <<storeVars, sttVars, htVars>>
    /\ UNCHANGED <<ttsVars, llmVars, unitVars, textVars, replyPc>>

\* An unpacking that never raises.
UnpackNeverRaises(cd) == FALSE

\* {**session["enquiry_data"].get("call_data", {}), ...} raises a TypeError
\* when the value stored under call_data is None.
UnpackRaises(cd) == cd = "None"

\* llm_service.close() returns; the update is built from
\* session["enquiry_data"]["call_data"]: unpacking None raises a TypeError,
\* which exotel_stream catches; else the record is completed and the
\* session deleted.  Then exotel_stream closes the socket.
CleanupLlm ==
    /\ wsPc = "close_llm"
    /\ wsPc' = "closed"
    /\ closed' = closed \cup {"llm"}
    /\ stepText' = NoText
    /\ IF UnpackRaises(enquiry_data)
       THEN /\ cleanup' = "raised"
            /\ wsError' = "cleanup"
            /\ UNCHANGED <<status, call_data, active_sessions>>
       ELSE /\ cleanup' = "returned"
            /\ status' = "completed"
            /\ call_data' = "final"
            /\ active_sessions' = active_sessions \ {SessionId}
            /\ UNCHANGED wsError
    /\ UNCHANGED <<visit_scheduled, scheduled, call_result, nMedia, enquiry_data, synthCalls>>
    /\ UNCHANGED <<sttVars, htVars>>
    /\ UNCHANGED <<ttsVars, llmVars, unitVars, textVars, replyPc>>

\* A frame that makes the loop body raise (not JSON, no payload): the
\* exception is caught and logged, the socket closed.
WsError ==
    /\ wsPc = "loop"
    /\ wsPc' = "closed"
    /\ wsError' = "stream"
    /\ stepText' = NoText
    /\ UNCHANGED <<nMedia, active_sessions, enquiry_data, closed, synthCalls, cleanup>>
    /\ UNCHANGED <<storeVars, sttVars, htVars>>
    /\ UNCHANGED <<ttsVars, llmVars, unitVars, textVars, replyPc>>

\* The peer disconnects: iter_text() ends and the socket is closed.
WsDisconnect ==
    /\ wsPc = "loop"
    /\ wsPc' = "closed"
    /\ stepText' = NoText
    /\ UNCHANGED <<wsError, nMedia, active_sessions, enquiry_data, closed, synthCalls,
                   cleanup>>
    /\ UNCHANGED <<storeVars, sttVars, htVars>>
    /\ UNCHANGED <<ttsVars, llmVars, unitVars, textVars, replyPc>>

\* ---------------------------------------------------------- GroqLLMService
\* The engine as its clients build it: initialised, with the dynamic
\* fields of the site-visit flow (two of them stand for all: the two the
\* orchestrator reads), every field a string with default "none".
Slots == {"visit_date", "visit_time"}
Keys == Slots \cup {"response"}
Null == "null"                        \* JSON null, Python None
Invalid == "invalid"                  \* a JSON value that is neither a string nor null
GROQ_MODEL == "llama-3.3-70b-versatile"
GROQ_FALLBACK_MODEL == "llama-3.1-8b-instant"
FormatTrouble == "I'm having trouble with my response format. Could you repeat that?"
ProcessingTrouble == "I'm having trouble processing that. Could you please repeat?"
ConnectionTrouble ==
    "I'm having trouble with my connection. Let's continue - could you repeat that?"

\* What the model can put under a key of its JSON object.
SlotValue(k) == IF k = "visit_date" THEN "Saturday" ELSE "11 AM"
Inputs(k) ==
    IF k = "response" THEN {"Great!", "Goodbye!", Null, Invalid}
    ELSE {SlotValue(k), Null, Invalid}
JsonObjects ==
    UNION { {obj \in [ks -> UNION {Inputs(k) : k \in Keys}] :
                \A k \in ks : obj[k] \in Inputs(k)} : ks \in SUBSET Keys }
EmptyObject == [k \in {} |-> Null]

\* How the request of a generate_response call ends: session.post raises
\* ("network"), the body carries an error (a rate limit or another one),
\* or the content of the first choice is not JSON, is JSON but no object,
\* or is a JSON object.
Failures == {"network", "rate_limit", "api_error"}
ApiOutcomes ==
    {[kind |-> f, obj |-> EmptyObject] : f \in Failures \cup {"not_json", "not_object"}}
        \cup {[kind |-> "object", obj |-> obj] : obj \in JsonObjects}

\* The model class: its fields and their defaults.
DefaultOf(k) == IF k = "response" THEN "" ELSE "none"
\* A model class without the dynamic fields.
NoDynamicFields(dynamic_fields) == [k \in {"response"} |-> DefaultOf(k)]

create_dynamic_model(dynamic_fields) ==
    [k \in dynamic_fields \cup {"response"} |-> DefaultOf(k)]

ResponseModel == create_dynamic_model(Slots)

\* Validation of a value: slots are Union[str, None], response is str.
Accepts(k, v) == v # Invalid /\ (k = "response" => v # Null)

\* ResponseModel(**values) and the validation of a JSON object: fails on
\* a value its field does not accept, ignores other keys, fills the fields
\* that have no value with their default.
Construct(values) ==
    IF \E k \in DOMAIN values \cap DOMAIN ResponseModel : ~Accepts(k, values[k])
    THEN [ok |-> FALSE, model |-> EmptyObject]
    ELSE [ok |-> TRUE,
          model |-> [k \in DOMAIN ResponseModel |->
                        IF k \in DOMAIN values THEN values[k] ELSE ResponseModel[k]]]

model_validate_json(content) ==
    IF content.kind # "object"
    THEN [ok |-> FALSE, model |-> EmptyObject]
    ELSE Construct(content.obj)

\* The recovery after a failed validation: json.loads, raw_json.get for
\* every field and the reply, then ResponseModel(**default_values).
Recover(content) ==
    IF content.kind # "object"
    THEN [ok |-> FALSE, model |-> EmptyObject]
    ELSE Construct([k \in Keys |->
                       IF k \in DOMAIN content.obj THEN content.obj[k]
                       ELSE IF k = "response" THEN FormatTrouble ELSE "none"])

\* The reply of a fallback with every dynamic field "none".
Apology(text) ==
    Construct([k \in Keys |-> IF k = "response" THEN text ELSE "none"]).model

\* parsed_response for the content of the first choice.
Parsed(content) ==
    IF model_validate_json(content).ok
    THEN [path |-> "strict", model |-> model_validate_json(content).model]
    ELSE IF Recover(content).ok
         THEN [path |-> "recovered", model |-> Recover(content).model]
         ELSE [path |-> "ultimate", model |-> Apology(ProcessingTrouble)]

\* should_end_call: the reply holds a farewell phrase.
SaysFarewell(reply) == reply = "Goodbye!"

\* What generate_response returns: the parsed reply, or the error reply
\* when the request or the reading of its body raised.
NoContent == [kind |-> "none", obj |-> EmptyObject]
NoResult ==
    [path |-> "none", raw_model_data |-> EmptyObject, should_end_call |-> FALSE,
     extracted_fields |-> EmptyObject, content |-> NoContent]

Returned(content) ==
    LET parsed_response == Parsed(content)
    IN [path |-> parsed_response.path,
        raw_model_data |-> parsed_response.model,
        should_end_call |-> SaysFarewell(parsed_response.model["response"]),
        extracted_fields |-> [f \in Slots |->
                                 IF f \in DOMAIN parsed_response.model
                                 THEN parsed_response.model[f] ELSE "none"],
        content |-> content]

ErrorReturn(outcome) ==
    [path |-> "error", raw_model_data |-> Apology(ConnectionTrouble),
     should_end_call |-> FALSE, extracted_fields |-> EmptyObject, content |-> outcome]

\* collected_data.get(key): None for a key the data does not hold.
DictGet(collected_data, k) ==
    IF k \in DOMAIN collected_data THEN collected_data[k] ELSE Null

\* The orchestrator's test for a booked site visit, on the raw_model_data
\* of the reply.
SiteVisitBooked(collected_data) ==
    /\ DictGet(collected_data, "visit_date") # "none"
    /\ DictGet(collected_data, "visit_time") # "none"

\* A history that keeps its oldest messages.
TrimOldest(h, n) == IF Len(h) > n THEN SubSeq(h, 1, n) ELSE h

\* conversation_history[-n:] when the history is longer than n.
Trim(h, n) == IF Len(h) > n THEN SubSeq(h, Len(h) - n + 1, Len(h)) ELSE h

\* add_to_history(role, content): append, then trim to 2 * max_history.
\* (The content of a message is its rank among all messages added.)
Message(role) == [role |-> role, id |-> Len(appended) + 1]
add_to_history(role) ==
    /\ appended' = Append(appended, Message(role))
    /\ llm_history' = Trim(Append(llm_history, Message(role)), max_history * 2)

\* The client calls generate_response(user_input=text): the user message
\* is added and the request with the system prompt and the history is
\* sent to GROQ_MODEL.
GenerateResponse ==
    /\ llmPc = "idle"
    /\ nGenerate < MaxGenerate
    /\ nGenerate' = nGenerate + 1
    /\ callStart' = Len(appended)
    /\ add_to_history("user")
    /\ sent' = llm_history'
    /\ posts' = <<GROQ_MODEL>>
    /\ llmPc' = "post"
    /\ UNCHANGED <<max_history, nAdds, result>>
    /\ UNCHANGED <<ttsVars, storeVars, wsVars, sttVars, htVars, stepText, unitVars, textVars, replyPc>>

\* The request ends: a failure goes to the error reply, a content is
\* parsed and the reply added to the history; generate_response returns.
ApiReply(outcome) ==
    /\ llmPc = "post"
    /\ llmPc' = "idle"
    /\ IF outcome.kind \in Failures
       THEN /\ result' = ErrorReturn(outcome)
            /\ UNCHANGED <<llm_history, appended>>
       ELSE /\ result' = Returned(outcome)
            /\ add_to_history("assistant")
    /\ UNCHANGED <<max_history, callStart, sent, posts, nGenerate, nAdds>>
    /\ UNCHANGED <<ttsVars, storeVars, wsVars, sttVars, htVars, stepText, unitVars, textVars, replyPc>>

\* A client calls add_to_history itself, between two generate_response
\* calls.
AddToHistory(role) ==
    /\ llmPc = "idle"
    /\ nAdds < MaxAdds
    /\ nAdds' = nAdds + 1
    /\ add_to_history(role)
    /\ UNCHANGED <<max_history, llmPc, callStart, sent, posts, nGenerate, result>>
    /\ UNCHANGED <<ttsVars, storeVars, wsVars, sttVars, htVars, stepText, unitVars, textVars, replyPc>>

\* GroqLLMService(api_key, max_history) after initialize().
InitLLM(n) ==
    /\ max_history = n
    /\ llm_history = <<>>
    /\ appended = <<>>
    /\ llmPc = "idle"
    /\ callStart = 0
    /\ sent = <<>>
    /\ posts = <<>>
    /\ nGenerate = 0
    /\ nAdds = 0
    /\ result = NoResult

\* ------------------------------------------------- the STT adapters alone
\* What the callback is given: the sentinel, or the fragments of an
\* utterance (final results are numbered in arrival order), which the
\* Deepgram adapter joins with spaces.
Sentinel == [text |-> "__FORCE_STOP__", frags |-> <<>>]
Utterance(frags) == [text |-> "utterance", frags |-> frags]

\* The factory creates the adapter of provider p; initialize() and
\* start_stream(callback) connect it and store the callback.
StartStream(p) ==
    /\ sttProvider = "none"
    /\ sttProvider' = p
    /\ is_connected' = TRUE
    /\ callback_function' = TRUE
    /\ UNCHANGED <<emitted, arrived, once, is_finals, processing_lock, inbox, nEvents, hpc>>
    /\ UNCHANGED <<ttsVars, storeVars, wsVars, htVars, stepText, llmVars, textVars, replyPc>>
    /\ UNCHANGED <<file, nSaved, last, is_playing, mic, nAudio>>

\* Deepgram sends a result or an UtteranceEnd event and the handler runs to
\* its end: on_message returns on an empty transcript, counts an interim
\* result and sends the sentinel for the first one, collects a final
\* result and passes the joined fragments on speech_final;
\* on_utterance_end passes what is collected.  once and is_finals are reset
\* after the callback returned, not when it raised (handle_transcription of
\* main.py raises on every transcript).
DeepgramResult(kind, raises) ==
    /\ sttProvider = "deepgram"
    /\ is_connected
    /\ nEvents < MaxEvents
    /\ nEvents' = nEvents + 1
    /\ LET finals == IF kind = "utterance_end" THEN is_finals
                     ELSE Append(is_finals, arrived + 1)
           ends == IF kind = "utterance_end" THEN is_finals # <<>>
                   ELSE kind = "speech_final"
           raised == raises /\ callback_function
       IN CASE kind = "empty" -> UNCHANGED <<once, is_finals, emitted, arrived>>
            [] kind = "interim" ->
                 /\ once' = IF once < MaxOnce THEN once + 1 ELSE once
                 /\ emitted' = IF callback_function /\ once + 1 <= 1
                                THEN Append(emitted, Sentinel) ELSE emitted
                 /\ UNCHANGED <<is_finals, arrived>>
            [] OTHER ->
                 /\ arrived' = IF kind = "utterance_end" THEN arrived ELSE arrived + 1
                 /\ IF ~ends
                    THEN /\ is_finals' = finals
                         /\ UNCHANGED <<once, emitted>>
                    ELSE /\ emitted' = IF callback_function
                                       THEN Append(emitted, Utterance(finals)) ELSE emitted
                         /\ is_finals' = IF raised THEN finals ELSE <<>>
                         /\ once' = IF raised THEN once ELSE 0
    /\ UNCHANGED <<sttProvider, is_connected, callback_function, processing_lock, inbox, hpc>>
    /\ UNCHANGED <<ttsVars, storeVars, wsVars, htVars, stepText, llmVars, textVars, replyPc>>
    /\ UNCHANGED <<file, nSaved, last, is_playing, mic, nAudio>>

\* _listen of the Sarvam adapter reads a text message: a final text goes to
\* the callback, an interim text sends the sentinel, an empty text nothing;
\* what the callback raises is logged.
SarvamMessage(kind) ==
    /\ sttProvider = "sarvam"
    /\ is_connected
    /\ nEvents < MaxEvents
    /\ nEvents' = nEvents + 1
    /\ arrived' = IF kind = "final" THEN arrived + 1 ELSE arrived
    /\ emitted' = IF kind = "empty" \/ ~callback_function THEN emitted
                   ELSE IF kind = "final" THEN Append(emitted, Utterance(<<arrived + 1>>))
                   ELSE Append(emitted, Sentinel)
    /\ UNCHANGED <<sttProvider, is_connected, callback_function, once, is_finals,
                   processing_lock, inbox, hpc>>
    /\ UNCHANGED <<ttsVars, storeVars, wsVars, htVars, stepText, llmVars, textVars, replyPc>>
    /\ UNCHANGED <<file, nSaved, last, is_playing, mic, nAudio>>

\* close() of the adapter: Deepgram clears is_finals and once and finishes
\* the connection; Sarvam cancels the listen task.
SttClose ==
    /\ sttProvider # "none"
    /\ is_connected
    /\ is_connected' = FALSE
    /\ is_finals' = <<>>
    /\ once' = 0
    /\ UNCHANGED <<sttProvider, emitted, arrived, callback_function, processing_lock,
                   inbox, nEvents, hpc>>
    /\ UNCHANGED <<ttsVars, storeVars, wsVars, htVars, stepText, llmVars, textVars, replyPc>>
    /\ UNCHANGED <<file, nSaved, last, is_playing, mic, nAudio>>

\* ------------------------------------------------ EnquiryStorage alone
\* The payloads schedule_call passes to update_enquiry.
Payloads == {[status |-> "calling", call_sid |-> "sid"], [status |-> "failed"]}

\* No call made yet (or the file was changed since the latest call).
NoCall == [op |-> "none", id |-> 0, updates |-> [status |-> "none"],
           before |-> [state |-> "ok", data |-> <<>>], outcome |-> "ok",
           found |-> FALSE, repeat |-> FALSE, ret |-> "none", list |-> <<>>]

\* A read that lets the error of an unreadable file through.
ReadErrorPropagates(f) == [raised |-> f.state # "ok", list |-> f.data]

\* A read that returns the list as it was before the latest call: the read
\* of a call that runs across the write of another one.
StaleRead(f) == [raised |-> FALSE, list |-> last.before.data]

\* get_all_enquiries: the list in the file; any error of read_text or
\* json.loads is caught and the result is the empty list.
get_all_enquiries(f) ==
    [raised |-> FALSE, list |-> IF f.state = "ok" THEN f.data ELSE <<>>]

\* file_path.write_text(json.dumps(enquiries)): written, refused before
\* the file is touched, or failed after the file was truncated.
Write(enquiries, outcome, f) ==
    CASE outcome = "ok" -> [state |-> "ok", data |-> enquiries]
      [] outcome = "denied" -> f
      [] OTHER -> [state |-> "corrupt", data |-> <<>>]

\* A store that appends the updated record and keeps the old one.
UpdatedByAppend(enquiries, id, updates) ==
    enquiries \o
        [i \in 1..Cardinality({j \in 1..Len(enquiries) : enquiries[j].enquiry_id = id}) |->
            LET enq == enquiries[CHOOSE j \in 1..Len(enquiries) : enquiries[j].enquiry_id = id]
            IN [k \in DOMAIN enq \cup DOMAIN updates |->
                    IF k \in DOMAIN updates THEN updates[k] ELSE enq[k]]]

\* The loop of update_enquiry: enq.update(updates) on the first record
\* with the id, then break.
Updated(enquiries, id, updates) ==
    LET hits == {j \in 1..Len(enquiries) : enquiries[j].enquiry_id = id}
    IN [i \in 1..Len(enquiries) |->
           IF i \in hits /\ \A j \in hits : i <= j
           THEN [k \in DOMAIN enquiries[i] \cup DOMAIN updates |->
                    IF k \in DOMAIN updates THEN updates[k] ELSE enquiries[i][k]]
           ELSE enquiries[i]]

\* save_enquiry of a new enquiry (status pending): read, append, write;
\* any exception is caught and False returned.
StoreSave(outcome) ==
    /\ nSaved < MaxRecords
    /\ nSaved' = nSaved + 1
    /\ LET r == get_all_enquiries(file)
           enquiry == [enquiry_id |-> nSaved + 1, status |-> "pending"]
       IN /\ file' = IF r.raised THEN file ELSE Write(Append(r.list, enquiry), outcome, file)
          /\ last' = [NoCall EXCEPT !.op = "save", !.id = nSaved + 1, !.before = file,
                                    !.outcome = outcome,
                                    !.ret = IF r.raised \/ outcome # "ok"
                                            THEN "false" ELSE "true"]
    /\ UNCHANGED <<sttProvider, emitted, arrived>>
    /\ UNCHANGED <<ttsVars, storeVars, wsVars, sttVars, htVars, stepText, llmVars, textVars, replyPc>>
    /\ UNCHANGED <<is_playing, mic, nAudio>>

\* update_enquiry(id, updates): read, update the record with the id if
\* there is one, write, return True; any exception is caught and False
\* returned.
StoreUpdate(id, updates, outcome) ==
    /\ LET r == get_all_enquiries(file)
       IN /\ file' = IF r.raised THEN file
                     ELSE Write(Updated(r.list, id, updates), outcome, file)
          /\ last' = [NoCall EXCEPT !.op = "update", !.id = id, !.updates = updates,
                                    !.before = file, !.outcome = outcome,
                                    !.found = \E j \in 1..Len(r.list) :
                                                 r.list[j].enquiry_id = id,
                                    !.repeat = /\ last.op = "update" /\ last.id = id
                                               /\ last.updates = updates
                                               /\ last.ret = "true",
                                    !.ret = IF r.raised \/ outcome # "ok"
                                            THEN "false" ELSE "true"]
    /\ UNCHANGED <<nSaved, sttProvider, emitted, arrived>>
    /\ UNCHANGED <<ttsVars, storeVars, wsVars, sttVars, htVars, stepText, llmVars, textVars, replyPc>>
    /\ UNCHANGED <<is_playing, mic, nAudio>>

\* get_enquiry(id): the first record of get_all_enquiries() with the id.
StoreGet(id) ==
    /\ LET r == get_all_enquiries(file)
       IN last' = [NoCall EXCEPT !.op = "get", !.id = id, !.before = file,
                                 !.found = \E j \in 1..Len(r.list) :
                                              r.list[j].enquiry_id = id,
                                 !.ret = IF r.raised THEN "raised" ELSE "list",
                                 !.list = r.list]
    /\ UNCHANGED <<file, nSaved, sttProvider, emitted, arrived>>
    /\ UNCHANGED <<ttsVars, storeVars, wsVars, sttVars, htVars, stepText, llmVars, textVars, replyPc>>
    /\ UNCHANGED <<is_playing, mic, nAudio>>

\* Outside the program the file is removed or overwritten with text that
\* is not JSON.
FileDamaged(how) ==
    /\ file.state = "ok"
    /\ file' = [state |-> how, data |-> <<>>]
    /\ last' = NoCall
    /\ UNCHANGED <<nSaved, sttProvider, emitted, arrived>>
    /\ UNCHANGED <<ttsVars, storeVars, wsVars, sttVars, htVars, stepText, llmVars, textVars, replyPc>>
    /\ UNCHANGED <<is_playing, mic, nAudio>>

\* ------------------------------------------------------ LocalVoiceClient
\* The client awaits tts_service.synthesize(text, audio_callback) for the
\* greeting or for the reply of a turn.  replyPc is "none" when no
\* synthesize call is running, "speaking" while one runs, and "stopped"
\* once tts_service.stop() was called on it.
LocalSynthesize ==
    /\ replyPc = "none"
    /\ replyPc' = "speaking"
    /\ UNCHANGED <<is_playing, mic, nAudio, sttProvider, emitted, arrived, file, nSaved, last>>
    /\ UNCHANGED <<ttsVars, storeVars, wsVars, sttVars, htVars, stepText, llmVars, textVars>>

\* play_audio(chunk, action), called by the TTS service through the audio
\* callback: playAudio sets is_playing, finishAudio clears it, clearAudio
\* only logs.  A service sends playAudio while it synthesizes and has not
\* been stopped; SarvamTTSService ends a synthesize call with finishAudio,
\* or with clearAudio when it was stopped; CartesiaTTSService sends no
\* finishAudio, and clearAudio from its stop().
PlayAudio(action) ==
    /\ nAudio < MaxAudio
    /\ provider = "cartesia" => action # "finishAudio"
    /\ replyPc = IF action = "clearAudio" THEN "stopped" ELSE "speaking"
    /\ nAudio' = nAudio + 1
    /\ is_playing' = CASE action = "playAudio" -> TRUE
                        [] action = "finishAudio" -> FALSE
                        [] OTHER -> is_playing
    /\ replyPc' = IF action = "playAudio" THEN replyPc ELSE "none"
    /\ UNCHANGED <<mic, sttProvider, emitted, arrived, file, nSaved, last>>
    /\ UNCHANGED <<ttsVars, storeVars, wsVars, sttVars, htVars, stepText, llmVars, textVars>>

\* CartesiaTTSService.synthesize returns once the last chunk of the reply
\* has been sent: no callback is made for the end of the reply.
CartesiaReturns ==
    /\ provider = "cartesia"
    /\ replyPc = "speaking"
    /\ replyPc' = "none"
    /\ UNCHANGED <<is_playing, mic, nAudio, sttProvider, emitted, arrived, file, nSaved, last>>
    /\ UNCHANGED <<ttsVars, storeVars, wsVars, sttVars, htVars, stepText, llmVars, textVars>>

\* One iteration of record_audio_loop: read a chunk and pass it to
\* stt_service.process_audio only when is_playing is false (is_farewell is
\* never set).
RecordChunk ==
    /\ Len(mic) < MaxChunks
    /\ mic' = Append(mic, [playing |-> is_playing, sent |-> ~is_playing])
    /\ UNCHANGED <<is_playing, nAudio, replyPc, sttProvider, emitted, arrived, file, nSaved,
                   last>>
    /\ UNCHANGED <<ttsVars, storeVars, wsVars, sttVars, htVars, stepText, llmVars, textVars>>

\* The STT service, from audio it was sent, emits the sentinel;
\* handle_transcription("__FORCE_STOP__") stops the playback if a reply is
\* playing: is_playing is cleared, clearAudio played, tts_service.stop()
\* called.
LocalForceStop ==
    /\ \E i \in 1..Len(mic) : mic[i].sent
    /\ is_playing' = FALSE
    /\ ttsStopCalls' = IF is_playing THEN ttsStopCalls + 1 ELSE ttsStopCalls
    /\ replyPc' = IF is_playing /\ replyPc = "speaking" THEN "stopped" ELSE replyPc
    /\ UNCHANGED <<mic, nAudio, sttProvider, emitted, arrived, file, nSaved, last>>
    /\ UNCHANGED <<conversation_history, htPc, htText, turns>>
    /\ UNCHANGED <<ttsVars, storeVars, wsVars, sttVars, stepText, llmVars, textVars>>

\* ------------------------------------------------------ text segmentation
\* A sentence is modelled by its length after strip(): 0 is a sentence that
\* is empty or blank.  The lengths stay under the 200 characters from which
\* a segment is split again at its commas, so a group is a final segment.
SentenceLengths == {0, 10, 40, 90}
RawSentences == UNION {[1..n -> SentenceLengths] : n \in 0..MaxSentences}

\* should_flush after the sentence at index i (from 1) has been added to
\* the group: the group has reached the maximum, or it has reached the
\* minimum and the next sentence would take it over the maximum (or there
\* is none), or the sentence is the last one.
ShouldFlush(raw, i, current_group) ==
    IF current_group >= target_max_size THEN TRUE
    ELSE IF current_group >= target_min_size
         THEN IF i < Len(raw)
              THEN current_group + raw[i + 1] > target_max_size
              ELSE TRUE
         ELSE i = Len(raw)

\* The grouping loop from index i on: a blank sentence is skipped, the
\* first sentence is emitted alone, another one is added to the group with
\* a space after it; the group is emitted, stripped, when should_flush
\* holds, and whatever group is left at the end of the iteration is emitted
\* as well.
RECURSIVE GroupFrom(_, _, _, _)
GroupFrom(raw, i, sentences, current_group) ==
    IF i > Len(raw) THEN sentences
    ELSE IF raw[i] = 0 THEN GroupFrom(raw, i + 1, sentences, current_group)
    ELSE IF Len(sentences) = 0 /\ current_group = 0
         THEN GroupFrom(raw, i + 1, Append(sentences, raw[i]), current_group)
    ELSE LET grown == current_group + raw[i] + 1
             flushed == ShouldFlush(raw, i, grown)
             kept == IF flushed THEN 0 ELSE grown
             emitted1 == IF flushed THEN Append(sentences, grown - 1) ELSE sentences
         IN IF kept > 0
            THEN GroupFrom(raw, i + 1, Append(emitted1, kept - 1), 0)
            ELSE GroupFrom(raw, i + 1, emitted1, 0)

Grouped(raw) == GroupFrom(raw, 1, <<>>, 0)

\* synthesize(text) splits its text into sentences and groups them.
SplitText(raw) ==
    /\ provider = "sarvam"
    /\ raw_sentences' = raw
    /\ final_segments' = Grouped(raw)
    /\ UNCHANGED <<ttsVars, storeVars, wsVars, sttVars, htVars, stepText, llmVars, unitVars,
                   replyPc>>

\* ------------------------------------------------- the TTS specification
InitTTSState ==
    /\ ncalls = 0
    /\ nstops = 0
    /\ sinkOf = [c \in Calls |-> <<>>]
    /\ hstop = [c \in Calls |-> "no"]
    /\ superseded = [c \in Calls |-> FALSE]
    /\ stopsReturned = [c \in Calls |-> -1]
    /\ spc = [c \in Calls |-> "idle"]
    /\ pos = [c \in Calls |-> <<0, 0>>]
    /\ ret = [c \in Calls |-> "none"]
    /\ is_stopped = FALSE
    /\ audio_queue = [c \in Calls |-> <<>>]
    /\ ppc = [c \in Calls |-> "none"]
    /\ pidx = [c \in Calls |-> 0]
    /\ fetch = [c \in Calls |-> [i \in Segs |-> "none"]]
    /\ outOfOrder = [c \in Calls |-> FALSE]
    /\ cancellation_event = FALSE
    /\ active_contexts = {}
    /\ cancelled_contexts = {}
    /\ tts_in_progress = FALSE
    /\ current_task = 0
    /\ context_lock = 0
    /\ lockWaiters = <<>>
    /\ callback_set = FALSE
    /\ tpc = [c \in Calls |-> "none"]
    /\ cancelReq = [c \in Calls |-> FALSE]
    /\ stopPc = [k \in StopIds |-> "none"]
    /\ stopTask = [k \in StopIds |-> 0]

InitTTS ==
    /\ provider \in {"cartesia", "sarvam"}
    /\ lim \in Workloads(provider)
    /\ InitTTSState

NextTTS ==
    \/ \E c \in Calls : SarvamSynthesize(c)
    \/ SarvamStop
    \/ \E c \in Calls : ProducerStart(c)
    \/ \E c \in Calls, i \in Segs, res \in {"ok", "fail"} : FetchDone(c, i, res)
    \/ \E c \in Calls : ProducerWake(c)
    \/ \E c \in Calls : ProducerPut(c)
    \/ \E c \in Calls : ConsumerWake(c)
    \/ \E c \in Calls : ConsumerStep(c)
    \/ \E c \in Calls : CartesiaSynthesize(c)
    \/ CartesiaStop
    \/ \E k \in StopIds : StopAfterClear(k)
    \/ \E k \in StopIds : StopWaited(k)
    \/ \E k \in StopIds : StopEnd(k)
    \/ \E c \in Calls : CartesiaLock(c)
    \/ \E c \in Calls : CartesiaLocked(c)
    \/ \E c \in Calls : TaskStart(c)
    \/ \E c \in Calls : TaskSent(c)
    \/ \E c \in Calls : TaskOutput(c)
    \/ \E c \in Calls : TaskChunk(c)
    \/ \E c \in Calls : CartesiaFinish(c)

\* ------------------------------------------------ the session specification
InitSession ==
    /\ status = "absent"
    /\ call_data = "None"
    /\ visit_scheduled = <<>>
    /\ scheduled = FALSE
    /\ call_result = "none"
    /\ wsPc = "accept"
    /\ wsError = "none"
    /\ nMedia = 0
    /\ active_sessions = {}
    /\ conversation_history = <<>>
    /\ enquiry_data = "unset"
    /\ closed = {}
    /\ synthCalls = 0
    /\ ttsStopCalls = 0
    /\ cleanup = "none"
    /\ is_connected = FALSE
    /\ callback_function = FALSE
    /\ once = 0
    /\ is_finals = <<>>
    /\ processing_lock = FALSE
    /\ inbox = <<>>
    /\ nEvents = 0
    /\ hpc = "idle"
    /\ htPc = "none"
    /\ htText = NoText
    /\ stepText = NoText
    /\ turns = <<>>
    /\ sttProvider = "none"
    /\ emitted = <<>>
    /\ arrived = 0
    /\ file = [state |-> "ok", data |-> <<>>]
    /\ nSaved = 0
    /\ last = NoCall
    /\ is_playing = FALSE
    /\ mic = <<>>
    /\ nAudio = 0
    /\ replyPc = "none"
    /\ raw_sentences = <<>>
    /\ final_segments = <<>>

Init == InitTTS /\ InitSession /\ InitLLM(SessionMaxHistory) /\ lim.calls = 1

Next ==
    \/ SubmitEnquiry
    \/ \E ok \in BOOLEAN : ScheduleCall(ok)
    \/ \E known \in BOOLEAN : WsOpen(known)
    \/ GreetingDone
    \/ WsMedia
    \/ \E kind \in {"interim", "final", "speech_final", "utterance_end"} : DgEmit(kind)
    \/ \E resp \in Responses : DgDispatch(resp)
    \/ HtStopDone
    \/ WsStop
    \/ CleanupStt
    \/ CleanupTts
    \/ CleanupLlm
    \/ WsError
    \/ WsDisconnect

Spec == Init /\ [][Next]_vars

\* The services alone: the session never starts.
InitServices == InitTTS /\ InitSession /\ InitLLM(SessionMaxHistory)

SpecTTS == InitServices /\ [][NextTTS]_vars

\* A Sarvam service whose tasks are scheduled and whose segment requests
\* end: the event loop runs every task that is ready, and every
\* _synthesize_chunk request completes or fails.  The callers are free to
\* call synthesize() and stop() or not.
\* Its workloads: the one-call workloads (a long text, a blank text, several
\* stops) and overlapping calls with a one-chunk text each.
FairWorkloads ==
    {w \in Workloads("sarvam") : w.calls = 1}
        \cup {[calls |-> MaxCallsFair, stops |-> 1, segs |-> 1, chunks |-> 1]}

InitSarvam ==
    /\ provider = "sarvam"
    /\ lim \in FairWorkloads
    /\ InitTTSState /\ InitSession /\ InitLLM(SessionMaxHistory)

SarvamSteps(c) ==
    \/ ProducerStart(c)
    \/ \E i \in Segs, res \in {"ok", "fail"} : FetchDone(c, i, res)
    \/ ProducerWake(c)
    \/ ProducerPut(c)
    \/ ConsumerWake(c)
    \/ ConsumerStep(c)

NextSarvam ==
    \/ \E c \in Calls : SarvamSynthesize(c)
    \/ SarvamStop
    \/ \E c \in Calls : ProducerStart(c)
    \/ \E c \in Calls, i \in Segs, res \in {"ok", "fail"} : FetchDone(c, i, res)
    \/ \E c \in Calls : ProducerWake(c)
    \/ \E c \in Calls : ProducerPut(c)
    \/ \E c \in Calls : ConsumerWake(c)
    \/ \E c \in Calls : ConsumerStep(c)

SpecSarvamFair ==
    InitSarvam /\ [][NextSarvam]_vars /\ \A c \in Calls : WF_vars(SarvamSteps(c))

\* The engine alone, called by one client: the session never starts.
InitEngine ==
    /\ InitTTS /\ provider = "cartesia" /\ lim.calls = 1
    /\ InitSession
    /\ \E n \in 1..MaxHistory : InitLLM(n)

NextLLM ==
    \/ GenerateResponse
    \/ \E outcome \in ApiOutcomes : ApiReply(outcome)
    \/ \E role \in {"user", "assistant"} : AddToHistory(role)

SpecLLM == InitEngine /\ [][NextLLM]_vars

\* A service alone, driven through its own interface: one start state.
InitUnit == Init /\ provider = "cartesia"

NextSTT ==
    \/ \E p \in {"deepgram", "sarvam"} : StartStream(p)
    \/ \E kind \in {"empty", "interim", "final", "speech_final", "utterance_end"},
          raises \in BOOLEAN : DeepgramResult(kind, raises)
    \/ \E kind \in {"empty", "interim", "final"} : SarvamMessage(kind)
    \/ SttClose

SpecSTT == InitUnit /\ [][NextSTT]_vars

NextStore ==
    \/ \E outcome \in {"ok", "denied", "truncated"} : StoreSave(outcome)
    \/ \E id \in 1..MaxRecords, updates \in Payloads,
          outcome \in {"ok", "denied", "truncated"} : StoreUpdate(id, updates, outcome)
    \/ \E id \in 1..MaxRecords : StoreGet(id)
    \/ \E how \in {"missing", "corrupt"} : FileDamaged(how)

SpecStore == InitUnit /\ [][NextStore]_vars

\* The local voice client with either TTS provider.
NextLocal ==
    \/ LocalSynthesize
    \/ \E action \in {"playAudio", "finishAudio", "clearAudio"} : PlayAudio(action)
    \/ CartesiaReturns
    \/ RecordChunk
    \/ LocalForceStop

SpecLocal == Init /\ [][NextLocal]_vars

\* The local voice client with its tasks scheduled: the TTS service makes
\* the callbacks it is due to make and the microphone loop runs.  The
\* user is free to speak or not: nothing obliges the STT service to emit
\* a sentinel or a transcript.
SpecLocalFair ==
    /\ Init /\ [][NextLocal]_vars
    /\ WF_vars(\E action \in {"playAudio", "finishAudio", "clearAudio"} : PlayAudio(action))
    /\ WF_vars(CartesiaReturns)
    /\ WF_vars(RecordChunk)

\* The segmentation of the texts a Sarvam service is given.
InitText == Init /\ provider = "sarvam"

NextText == \E raw \in RawSentences : SplitText(raw)

SpecText == InitText /\ [][NextText]_vars

\* ---------------------------------------------- properties of the services
\* C1: for every stop() issued while a synthesize call is running, once a
\* clearAudio has gone to the sink after that stop, no further playAudio
\* chunk of the stopped call is delivered (either provider, and also after
\* a later synthesize call has started).
C1_NoChunkAfterClear ==
    [][\A c \in Calls : hstop[c] = "cleared" => sinkOf'[c] = sinkOf[c]]_vars

\* <<segment, chunk>> a is delivered before b in request and byte order.
Before(a, b) == a[1] < b[1] \/ (a[1] = b[1] /\ a[2] < b[2])

\* C2: whatever the order in which the Sarvam segment requests complete,
\* the chunks a synthesize call delivered are in segment request order and,
\* within a segment, in byte order.
C2_RequestOrder ==
    provider = "sarvam" =>
        \A c \in Calls : \A i, j \in 1..Len(sinkOf[c]) :
            i < j => Before(sinkOf[c][i], sinkOf[c][j])

\* A Sarvam call whose requests completed out of order ran to its end and
\* delivered all chunks of at least two segments.
C2_Witness ==
    /\ provider = "sarvam"
    /\ \E c \in Calls :
          /\ outOfOrder[c] /\ ret[c] = "true"
          /\ \E i, j \in 1..Len(sinkOf[c]) :
                /\ sinkOf[c][i][1] < sinkOf[c][j][1]
                /\ sinkOf[c][i][2] > 1 /\ sinkOf[c][j][2] > 1

\* C3: a synthesize call made while an earlier one is still running stops
\* the earlier one: from the moment of the new call the earlier call
\* delivers no further chunk (either provider).
C3_EarlierCallSilent ==
    [][\A c \in Calls : superseded[c] => sinkOf'[c] = sinkOf[c]]_vars

\* ----------------------------------------------- properties of the session
\* C4: a force-stop sentinel is not held back by the turn in progress: no
\* interim result that is due a sentinel (the first of its utterance) waits
\* at the connection while the callback of a turn is still running.
C4_SentinelNotHeldBack ==
    ~(/\ htPc = "turn_stop"
      /\ inbox # <<>> /\ Head(inbox) = "interim"
      /\ callback_function /\ once = 0)

\* The steps the specification gives a turn, among those a turn records.
TurnStep(x) == x \in {"stop", "llm", "persist", "synthesize"}

\* C5: every final transcript handled for an active session goes through
\* stop, engine response, store write and reply synthesis, in this order:
\* a turn that is over has done exactly these.
C5_TurnStepsInOrder ==
    \A n \in 1..Len(turns) :
        turns[n].over =>
            SelectSeq(turns[n].steps, TurnStep) = <<"stop", "llm", "persist", "synthesize">>

\* C6: an invocation of handle_transcription with the sentinel only stops
\* the session's TTS service: none of its steps changes the conversation
\* history, the turns taken (no engine call, no reply), the enquiry record,
\* the service handles, the registry or the synthesize calls made.
C6_ForceStopOnlyStops ==
    [][stepText' = ForceStop =>
          /\ UNCHANGED <<conversation_history, turns, status, call_data, scheduled,
                         closed, active_sessions, enquiry_data, synthCalls>>
          /\ ttsStopCalls' \in {ttsStopCalls, ttsStopCalls + 1}]_vars

\* The sentinel has just been handled, with a stop(), in a session whose
\* history already holds a user entry.
C6_Witness ==
    /\ stepText = ForceStop
    /\ ttsStopCalls >= 2
    /\ conversation_history # <<>>

\* C7: a turn starts only after the turn before it has reached its reply
\* synthesis, and the steps of two turns never interleave (the earlier
\* turn is over when the next one exists).
C7_TurnsSequential ==
    \A n \in 1..(Len(turns) - 1) :
        /\ turns[n].over
        /\ \E k \in 1..Len(turns[n].steps) : turns[n].steps[k] = "synthesize"

\* C8: once cleanup_session, started by a "stop" frame for an active
\* session, is over, the three service handles are closed, the record has
\* its final status and the call data with the duration, and the session
\* is no longer in the registry.
C8_StopTearsDown ==
    cleanup \in {"raised", "returned"} =>
        /\ closed = Handles
        /\ status = "completed"
        /\ call_data = "final"
        /\ ~Active

\* C9: once exotel_stream has caught an exception of the frame loop of an
\* initialised session and closed the socket, the session is closed: its
\* handles are closed, its record has a final status and it has left the
\* registry.
C9_ErrorClosesSession ==
    (wsError = "stream" /\ wsPc = "closed" /\ enquiry_data # "unset") =>
        /\ closed = Handles
        /\ status \in {"completed", "site_visit_booked"}
        /\ ~Active

\* C10: a turn whose engine response carries a visit date and time, or
\* signals should_end_call, enters ENDING and leaves the record with a
\* terminal status: this holds as soon as the turn is over.
C10_EndingMarksRecord ==
    \A n \in 1..Len(turns) :
        (turns[n].over /\ turns[n].resp \in {"booking", "farewell"}) =>
            /\ \E k \in 1..Len(turns[n].steps) : turns[n].steps[k] = "ending"
            /\ status \in {"completed", "site_visit_booked"}

\* C11: a turn that takes the session into ENDING (its response books the
\* visit or signals should_end_call) delivers its final reply, and when it
\* is over, after the grace delay, the session has been torn down and has
\* left the registry.
C11_FinalReplyThenTeardown ==
    \A n \in 1..Len(turns) :
        (turns[n].over /\ turns[n].resp \in {"booking", "farewell"}) =>
            /\ \E k \in 1..Len(turns[n].steps) : turns[n].steps[k] = "synthesize"
            /\ closed = Handles
            /\ ~Active

\* C12: after a turn whose response has both visit_date and visit_time
\* set ("Saturday", "11 AM"), the stored record carries that date and time
\* and its status is site_visit_booked.
C12_BookingStored ==
    \A n \in 1..Len(turns) :
        (turns[n].over /\ turns[n].resp = "booking") =>
            /\ visit_scheduled = <<SlotValue("visit_date"), SlotValue("visit_time")>>
            /\ status = "site_visit_booked"

\* The statuses that end the life of a record.
Terminal == {"completed", "failed", "site_visit_booked"}

C14_TurnObtainsResponse ==
    \A n \in 1..Len(turns) :
        turns[n].over => \E k \in 1..Len(turns[n].steps) : turns[n].steps[k] = "llm"

\* ------------------------------------------------ properties of the engine
\* C15: a generate_response call whose request failed with a rate limit
\* has made exactly one more request, to the fallback model (and returns
\* the apology only if that one failed too); a call whose request failed
\* in another way has made no second request and returned the apology.
C15_RateLimitRetry ==
    (llmPc = "idle" /\ result.path # "none") =>
        /\ result.content.kind = "rate_limit" =>
              posts = <<GROQ_MODEL, GROQ_FALLBACK_MODEL>>
        /\ result.content.kind \in {"network", "api_error"} =>
              /\ posts = <<GROQ_MODEL>>
              /\ result.raw_model_data = Apology(ConnectionTrouble)

\* C16: whatever path produced it (strict parse, recovery, fallback or
\* error reply), the parsed output of a generate_response call has every
\* declared slot key, with value "none" when the key is absent from the
\* payload the model returned.  (The parsed output is the response model,
\* returned as "response" and dumped as "raw_model_data".)
C16_SlotsPresent ==
    result.path # "none" =>
        \A f \in Slots :
            /\ f \in DOMAIN result.raw_model_data
            /\ f \notin DOMAIN result.content.obj => result.raw_model_data[f] = "none"

\* A strictly parsed payload that gave one slot and left the other out.
C16_Witness ==
    /\ result.path = "strict"
    /\ "visit_date" \in DOMAIN result.content.obj
    /\ result.raw_model_data["visit_date"] = "Saturday"
    /\ "visit_time" \notin DOMAIN result.content.obj
    /\ result.raw_model_data["visit_time"] = "none"

\* C17: for a payload that is a JSON object but fails the validation, the
\* result keeps the payload's reply text and every valid slot value of the
\* payload, and has "none" exactly for the missing and the invalid slots.
C17_KeepsValidSlots ==
    (/\ result.content.kind = "object"
     /\ \E k \in DOMAIN result.content.obj : ~Accepts(k, result.content.obj[k])) =>
        LET obj == result.content.obj
            Valid(k) == k \in DOMAIN obj /\ Accepts(k, obj[k])
        IN /\ Valid("response") => result.raw_model_data["response"] = obj["response"]
           /\ \A f \in Slots :
                 result.raw_model_data[f] = IF Valid(f) THEN obj[f] ELSE "none"

\* C18: when a generate_response call returns, on any path, the history
\* has grown since the call by exactly the user message followed by the
\* assistant message.
C18_CallExtendsHistory ==
    [][(llmPc = "post" /\ llmPc' = "idle") =>
          /\ Len(appended') = callStart + 2
          /\ appended'[callStart + 1].role = "user"
          /\ appended'[callStart + 2].role = "assistant"]_vars

\* C19: after any sequence of generate_response and add_to_history calls
\* the engine's history, and the history part of a request, is at most
\* 2 * max_history messages long and is exactly the most recent messages
\* added, in the order they were added.
C19_RecentWindow ==
    LET n == IF Len(appended) > 2 * max_history THEN 2 * max_history ELSE Len(appended)
    IN /\ Len(llm_history) <= 2 * max_history
       /\ llm_history = SubSeq(appended, Len(appended) - n + 1, Len(appended))
       /\ llmPc = "post" => sent = llm_history

\* A request is in flight whose history had to be trimmed to a window of
\* several messages.
C19_Witness ==
    /\ llmPc = "post"
    /\ max_history >= 2
    /\ Len(appended) > 2 * max_history
    /\ Len(sent) = 2 * max_history

\* -------------------------------------- properties of the services (cont.)
\* C20: synthesize returns true only when no stop() was requested while it
\* was synthesizing: a call during which a stop was requested returns
\* false (either provider).
C20_ReturnsCompletion ==
    \A c \in Calls : ret[c] = "true" => hstop[c] = "no"

\* C21: a Sarvam synthesize call during which no stop was requested
\* returns true and has delivered, in request order and once each, every
\* chunk of every segment whose request succeeded, and nothing of the
\* segments whose request failed (a failed request is not made again).
C21_FailedSegmentSkipped ==
    provider = "sarvam" =>
        \A c \in Calls :
            (spc[c] = "done" /\ hstop[c] = "no") =>
                LET want == {<<i, k>> : i \in {j \in 1..lim.segs : fetch[c][j] = "ok"},
                                        k \in 1..lim.chunks}
                IN /\ ret[c] = "true"
                   /\ \A i \in 1..lim.segs : fetch[c][i] \in {"ok", "fail"}
                   /\ {sinkOf[c][j] : j \in 1..Len(sinkOf[c])} = want
                   /\ Len(sinkOf[c]) = Cardinality(want)
                   /\ \A i, j \in 1..Len(sinkOf[c]) :
                         i < j => Before(sinkOf[c][i], sinkOf[c][j])

\* A call that was not stopped has ended after a request failed between
\* two that succeeded, whose audio it delivered to the last chunk.
C21_Witness ==
    /\ provider = "sarvam"
    /\ \E c \in Calls :
          /\ spc[c] = "done" /\ hstop[c] = "no" /\ ret[c] = "true"
          /\ \E i, j, k \in 1..lim.segs :
                /\ i < j /\ j < k
                /\ fetch[c][i] = "ok" /\ fetch[c][j] = "fail" /\ fetch[c][k] = "ok"
                /\ \E m \in 1..Len(sinkOf[c]) : sinkOf[c][m] = <<k, lim.chunks>>

\* C22: a stop() issued while a call synthesizes causes a clearAudio to go
\* to the sink: no call that was stopped while it synthesized has ended
\* without a clearAudio sent after that stop.
C22_StopSendsClear ==
    \A c \in Calls : (spc[c] = "done" /\ hstop[c] # "no") => hstop[c] = "cleared"

\* C23: between two consecutive utterance transcripts an adapter passes
\* the force-stop sentinel to its callback at most once: no two sentinels
\* follow each other in what it emitted.
C23_SentinelOncePerUtterance ==
    \A i \in 1..(Len(emitted) - 1) :
        ~(emitted[i] = Sentinel /\ emitted[i + 1] = Sentinel)

\* The fragments of the transcripts in a log, in the order emitted.
RECURSIVE Fragments(_)
Fragments(log) ==
    IF log = <<>> THEN <<>> ELSE Head(log).frags \o Fragments(Tail(log))

\* C24: while the Deepgram adapter is open, the fragments of the
\* transcripts it emitted, followed by the fragments it still holds, are
\* the final fragments it received, each once and in arrival order.
C24_FragmentsEmittedOnce ==
    (sttProvider = "deepgram" /\ is_connected) =>
        Fragments(emitted) \o is_finals = [i \in 1..arrived |-> i]

\* C25: update_enquiry on an id that no stored record has leaves the
\* stored records as they were and returns False.
C25_UnknownIdReportsFailure ==
    (last.op = "update" /\ ~last.found) =>
        /\ last.ret = "false"
        /\ get_all_enquiries(file).list = get_all_enquiries(last.before).list

\* C27: a read of a missing or corrupt file gives the empty list and no
\* error; save_enquiry and update_enquiry return True or False, never
\* raise, and return False when the write failed.
C27_StorageErrorsContained ==
    /\ (last.op = "get" /\ last.before.state # "ok") =>
           (last.ret = "list" /\ last.list = <<>>)
    /\ last.op \in {"save", "update"} =>
           /\ last.ret \in {"true", "false"}
           /\ last.outcome # "ok" => last.ret = "false"

\* An update_enquiry call found the file corrupt, its write failed, and it
\* returned False.
C27_Witness ==
    /\ last.op = "update"
    /\ last.before.state = "corrupt"
    /\ last.outcome = "denied"
    /\ last.ret = "false"

\* C28: a second update_enquiry call with the id and the payload of the
\* call before it (both returned True) leaves the file as the first call
\* left it.
C28_UpdateIdempotent ==
    (last.op = "update" /\ last.repeat /\ last.ret = "true") => file = last.before

\* The second of two equal calls has returned; the record with the id
\* holds the payload.
C28_Witness ==
    /\ last.op = "update" /\ last.repeat /\ last.ret = "true" /\ last.found
    /\ \E j \in 1..Len(file.data) :
          /\ file.data[j].enquiry_id = last.id
          /\ file.data[j] = [enquiry_id |-> last.id, status |-> "calling", call_sid |-> "sid"]
    /\ Len(file.data) = MaxRecords

\* C29: every chunk the local client read from the microphone while a
\* reply was playing was passed to the STT service.
C29_MicHeardWhilePlaying ==
    \A i \in 1..Len(mic) : mic[i].playing => mic[i].sent

FullAudio(c) ==
    {<<i, k>> : i \in {j \in 1..lim.segs : provider = "sarvam" => fetch[c][j] = "ok"},
                k \in 1..lim.chunks}

\* C30: a synthesize call made after a stop(), when every stop() begun
\* before it had returned, with no stop() and no further synthesize call
\* since, is accepted and ends having delivered its full audio, each chunk
\* once.
C30_AcceptedAfterStop ==
    \A c \in Calls :
        (/\ spc[c] = "done"
         /\ stopsReturned[c] >= 1
         /\ stopsReturned[c] = nstops
         /\ ncalls = c) =>
            /\ ret[c] = "true"
            /\ {sinkOf[c][j] : j \in 1..Len(sinkOf[c])} = FullAudio(c)
            /\ Len(sinkOf[c]) = Cardinality(FullAudio(c))

\* Call 1 was stopped while it synthesized; call 2, made after that stop
\* had returned, has ended with its audio delivered.
C30_Witness ==
    /\ hstop[1] # "no"
    /\ spc[2] = "done" /\ ncalls = 2
    /\ stopsReturned[2] = nstops /\ nstops >= 1
    /\ ret[2] = "true"
    /\ sinkOf[2] # <<>>

\* C31: once a Sarvam synthesize call that was stopped (a stop() was issued
\* while it synthesized) has returned false, none of the segment requests
\* its producer launched is still in flight.
C31_SegmentRequestsAborted ==
    \A c \in Calls :
        (/\ provider = "sarvam"
         /\ hstop[c] # "no"
         /\ spc[c] = "done"
         /\ ret[c] = "false") =>
            \A i \in Segs : fetch[c][i] # "flight"

\* C32: the booking test of the orchestrator holds of a reply only when the
\* model sent both visit_date and visit_time with a real value: a slot
\* that was omitted, null or of an invalid type counts as "none".
C32_BookedOnlyWithRealSlots ==
    (result.path # "none" /\ SiteVisitBooked(result.raw_model_data)) =>
        /\ result.content.kind = "object"
        /\ \A k \in Slots :
              /\ k \in DOMAIN result.content.obj
              /\ result.content.obj[k] = SlotValue(k)

\* C33: in the segments of a text, no segment after the first is shorter
\* than the minimum target size, unless it is the last one.
C33_GroupsReachMinimum ==
    \A j \in 2..(Len(final_segments) - 1) : final_segments[j] >= target_min_size

\* C34: when both teardown triggers have occurred for a session (a turn
\* whose response ends the call is over, so that its grace delay is due,
\* and the cleanup_session of a "stop" frame is over), the teardown has
\* taken effect once: the handles are closed, the final status is written,
\* and no trigger has raised an error.
C34_TeardownOnce ==
    (/\ cleanup \in {"raised", "returned"}
     /\ \E n \in 1..Len(turns) :
           turns[n].over /\ turns[n].resp \in {"booking", "farewell"}) =>
        /\ closed = Handles
        /\ status = "completed"
        /\ cleanup = "returned"
        /\ wsError = "none"

\* C36: once a turn whose response ends the call (it books the visit or
\* signals should_end_call) is over, the session is in ENDING and no
\* further turn is started for it: that turn is the last one.
C36_NoTurnAfterEnding ==
    \A n \in 1..Len(turns) :
        (turns[n].over /\ turns[n].resp \in {"booking", "farewell"}) =>
            Len(turns) = n

\* C37: every synthesize call made on a Sarvam service eventually returns,
\* when the tasks are scheduled and every segment request completes or
\* fails: whatever the number of segments and the timing of stop(), the
\* producer and the consumer do not block each other on the bounded queue.
C37_SynthesizeReturns ==
    \A c \in Calls : (spc[c] # "idle") ~> (spc[c] = "done")

\* A call with more segments than the queue holds has returned after a
\* stop() that came while its producer waited for room in the full queue.
C37_Witness ==
    /\ provider = "sarvam"
    /\ lim.segs > QueueMax
    /\ hstop[1] # "no"
    /\ spc[1] = "done"
    /\ ppc[1] = "cancelled"
    /\ Len(audio_queue[1]) = QueueMax

\* C38: a save_enquiry or update_enquiry call that succeeds, issued by any
\* task after the calls of other tasks on other records, leaves every
\* other record in the file as those calls stored it, and its own enquiry
\* or update is in the file: no call overwrites the write of another.
C38_NoLostUpdate ==
    (last.op \in {"save", "update"} /\ last.ret = "true" /\ last.before.state = "ok") =>
        /\ file.state = "ok"
        /\ Len(file.data) >= Len(last.before.data)
        /\ \A j \in 1..Len(last.before.data) :
              last.before.data[j].enquiry_id # last.id =>
                  file.data[j] = last.before.data[j]
        /\ last.op = "save" =>
              file.data[Len(file.data)] = [enquiry_id |-> last.id, status |-> "pending"]
        /\ (last.op = "update" /\ last.found) =>
              \E j \in 1..Len(file.data) :
                  /\ file.data[j].enquiry_id = last.id
                  /\ \A k \in DOMAIN last.updates : file.data[j][k] = last.updates[k]

\* Two records were updated by two calls, one after the other, and the
\* file holds both updates.
C38_Witness ==
    /\ last.op = "update" /\ last.ret = "true" /\ last.found /\ last.id = 2
    /\ file.state = "ok"
    /\ \E j \in 1..Len(file.data) :
          file.data[j].enquiry_id = 1 /\ file.data[j].status = "calling"
    /\ \E j \in 1..Len(file.data) :
          file.data[j].enquiry_id = 2 /\ file.data[j].status = "failed"

\* C39: in the local client, once the reply has finished or has been
\* cleared (no synthesize call is running any more) while is_playing is
\* set, is_playing eventually returns to false, with either provider.
C39_PlayingEventuallyCleared ==
    (replyPc = "none" /\ is_playing) ~> ~is_playing

====
